---- MODULE Spec2Model ----
(***************************************************************************)
(* A model of oxidate, a terminal calendar viewer:                         *)
(*   - the API client's retry-once token refresh and its pagination loop   *)
(*     (src/src/calendar/client.rs),                                       *)
(*   - the background loader and the render loop (src/src/tui/loader.rs,   *)
(*     src/src/tui/app.rs),                                                *)
(*   - the navigation state machine and the event cache                    *)
(*     (src/src/tui/state.rs, src/src/tui/input.rs).                       *)
(*   - the fetch of calendars and events (src/src/tui/fetcher.rs).         *)
(* The specifications share the variables: Spec (the running application), *)
(* SpecLive (Spec with a render loop that keeps ticking), SpecClient (one  *)
(* API client talking to the service), SpecTrim (the cache eviction        *)
(* applied to arbitrary states), SpecKeys (the input router fed with key   *)
(* sequences), SpecFetch (one run of fetch_calendar_data), SpecDates      *)
(* (the fetch window and the refresh predicate over many dates), SpecMain *)
(* (the process from its command line to its exit, src/src/main.rs and     *)
(* src/src/auth) and SpecStore (sequences of operations on the credential  *)
(* store, src/src/auth/tokens.rs).                                         *)
(***************************************************************************)
EXTENDS Integers, Sequences, FiniteSets, TLC

VARIABLES
    \* AppState (src/src/tui/state.rs:19-31)
    selected_date, today, calendars, events, loading, error, view_focus,
    selected_event_index, events_view_mode, current_date_range, current_month,
    \* run_tui / run_app locals and the loader (app.rs, loader.rs)
    app_pc,        \* "start" | "running" | "quit": position of the render lane
    data_loader,   \* Option<DataLoader>: None or Some(loader id)
    receiver,      \* the messages queued in the loader's channel
    fetch_task,    \* "none" | "running" | "done" | "cancelled": position of
                   \* the spawned task
    last_action,   \* the InputAction the last routed key returned
    sent,          \* history: every message passed to sender.send, in order
    folded,        \* history: every message the render loop folded into state
    \* CalendarClient and the service it talks to (client.rs)
    tokens,        \* the in-memory TokenPair
    disk,          \* the TokenPair persisted by the credential store
    cpc,           \* position inside list_* / with_token_refresh
    call,          \* "none" | "list_calendars" | "list_events"
    page_token,    \* Option<String>: the continuation token of the loop
    all_items,     \* all_calendars / all_events accumulated so far
    ret,           \* the value the last list_* call returned
    pages,         \* the service's answer: a sequence of pages
    wire,          \* history: every request sent during the current list_* call
    w,             \* history of the current with_token_refresh invocation
    issued,        \* how many access tokens the provider has issued
    ncalls,        \* how many list_* calls were started
    \* SpecTrim
    tpc,           \* "off" | "pre" | "post"
    events0,       \* the cache before trim_events_to_25_month_span
    \* SpecKeys
    key_in,        \* history: the key code of the last routed key event
    pre,           \* history: the navigation fields before that key event
    \* fetch_calendar_data (fetcher.rs)
    fpc,           \* "off" | "start" | "events" | "done"
    service,       \* what the service holds: the calendars and their events
    fetched,       \* the local `calendars` of fetch_calendar_data
    cal_i,         \* position of the `for calendar in &calendars` loop
    all_events_by_date,  \* the local index being built
    outcomes,      \* history: "ok" | "err", list_events' outcome per calendar
    fetch_ret,     \* the value fetch_calendar_data returned
    \* SpecDates
    dpc,           \* "off" | "new" | "window" | "moved" | "asked"
    span,          \* Option<DateRange>: the date_range local of run_tui
    needs,         \* Option<bool>: what needs_date_range_refresh returned
    \* who holds the CalendarClient (app.rs, loader.rs)
    render_client, \* the render lane holds the CalendarClient
    task_client,   \* the fetch task holds the CalendarClient
    client_log,    \* history: each use of the CalendarClient and its lane
    \* the time range fetch_calendar_data asks for (fetcher.rs:22-23)
    time_min,      \* Option<DateTime<Utc>>, in seconds since 1970-01-01T00:00:00Z
    time_max,      \* Option<DateTime<Utc>>
    \* SpecMain: the process from its command line to its exit (main.rs)
    mpc,           \* "off" | "parse" | "logout" | "authenticate" | "load" |
                   \* "oauth" | "flow" | "save" | "authenticated" | "tui" | "exited"
    args,          \* Option<Cli>: the parsed command line
    store,         \* the credential store: the config directory and the tokens file
    main_tokens,   \* Option<Tokens>: the tokens authenticate has in hand
    steps,         \* history: the calls main has made, with their outcomes
    exit_code,     \* Option<i32>: the exit status of the process
    \* SpecStore: sequences of operations on the credential store (tokens.rs)
    store_init,    \* history: the credential store before the first operation
    store_log,     \* history: the operations applied, with what they returned
    \* the refreshes of one list call (client.rs:45-72, 98-127)
    call_refreshes \* history: the token exchanges attempted since the current
                   \* list_calendars / list_events call started

appVars == <<selected_date, today, calendars, events, loading, error, view_focus,
             selected_event_index, events_view_mode, current_date_range,
             current_month>>
loopVars == <<app_pc, data_loader, receiver, fetch_task, last_action, sent, folded>>
clientVars == <<tokens, disk, cpc, call, page_token, all_items, ret, pages, wire,
                w, issued, ncalls>>
trimVars == <<tpc, events0>>
keyVars == <<key_in, pre>>
fetchVars == <<fpc, service, fetched, cal_i, all_events_by_date, outcomes,
               fetch_ret>>
dateVars == <<dpc, span, needs>>
ownerVars == <<render_client, task_client, client_log>>
timeVars == <<time_min, time_max>>
mainVars == <<mpc, args, store, main_tokens, steps, exit_code>>
storeVars == <<store_init, store_log>>
lifeVars == <<call_refreshes>>
vars == <<appVars, loopVars, clientVars, trimVars, keyVars, fetchVars, dateVars, ownerVars, timeVars, mainVars, storeVars, lifeVars>>

----------------------------------------------------------------------------
\* Option<T>
None == <<>>
Some(x) == <<x>>

----------------------------------------------------------------------------
\* chrono::NaiveDate, as the number of days since 1970-01-01 (proleptic
\* Gregorian calendar), with the civil-calendar conversions chrono performs.

DaysFromCivil(y, m, d) ==
    LET yy  == IF m <= 2 THEN y - 1 ELSE y
        era == yy \div 400
        yoe == yy - era * 400
        mp  == IF m > 2 THEN m - 3 ELSE m + 9
        doy == (153 * mp + 2) \div 5 + d - 1
        doe == yoe * 365 + yoe \div 4 - yoe \div 100 + doy
    IN  era * 146097 + doe - 719468

CivilFromDays(z) ==
    LET zz  == z + 719468
        era == zz \div 146097
        doe == zz - era * 146097
        yoe == (doe - doe \div 1460 + doe \div 36524 - doe \div 146096) \div 365
        doy == doe - (365 * yoe + yoe \div 4 - yoe \div 100)
        mp  == (5 * doy + 2) \div 153
        d   == doy - (153 * mp + 2) \div 5 + 1
        m   == IF mp < 10 THEN mp + 3 ELSE mp - 9
        y   == yoe + era * 400 + (IF m <= 2 THEN 1 ELSE 0)
    IN  <<y, m, d>>

from_ymd_opt(y, m, d) == DaysFromCivil(y, m, d)
year(date) == CivilFromDays(date)[1]
month(date) == CivilFromDays(date)[2]
day(date) == CivilFromDays(date)[3]
pred_opt(date) == date - 1
checked_add_signed(date, days) == date + days

----------------------------------------------------------------------------
\* DateRange (src/src/tui/state.rs:185-271)

last_day_of_month(y, m) ==
    LET next == IF m = 12 THEN <<y + 1, 1>> ELSE <<y, m + 1>>
        first_of_next == from_ymd_opt(next[1], next[2], 1)
    IN  pred_opt(first_of_next)

\* a window whose start forgets the year boundary
five_month_span_SameYear(center_date) ==
    LET cm == month(center_date)
        cy == year(center_date)
        start == IF cm <= 2
                 THEN from_ymd_opt(cy, cm + 10, 1)
                 ELSE from_ymd_opt(cy, cm - 2, 1)
        end == IF cm >= 11
               THEN last_day_of_month(cy + 1, cm - 10)
               ELSE last_day_of_month(cy, cm + 2)
    IN  [start |-> start, end |-> end]

five_month_span(center_date) ==
    LET cm == month(center_date)
        cy == year(center_date)
        start == IF cm <= 2
                 THEN from_ymd_opt(cy - 1, cm + 10, 1)
                 ELSE from_ymd_opt(cy, cm - 2, 1)
        end == IF cm >= 11
               THEN last_day_of_month(cy + 1, cm - 10)
               ELSE last_day_of_month(cy, cm + 2)
    IN  [start |-> start, end |-> end]

twenty_five_month_span(center_date) ==
    LET cm == month(center_date)
        cy == year(center_date)
        months_back == 12
        months_ahead == 12
        startYM == IF cm <= 12
                   THEN IF cm - months_back <= 0
                        THEN <<cy - 1, 12 + cm - months_back>>
                        ELSE <<cy, cm - months_back>>
                   ELSE <<cy, cm>>
        endYM == IF cm + months_ahead > 12
                 THEN <<cy + 1, cm + months_ahead - 12>>
                 ELSE <<cy, cm + months_ahead>>
    IN  [start |-> from_ymd_opt(startYM[1], startYM[2], 1),
         end |-> last_day_of_month(endYM[1], endYM[2])]

----------------------------------------------------------------------------
\* Bounds of the model

\* selected_date stays within today - MaxBackDays .. today + MaxFwdDays
MaxBackDays == 20
MaxFwdDays == 322
\* at most MaxEvents events on one day of a fetched index
MaxEvents == 2

\* Local::now().date_naive() at start-up
Todays == {from_ymd_opt(2025, 6, 15)}

----------------------------------------------------------------------------
\* ViewFocus, EventsViewMode, InputAction, KeyCode, DataMessage

ListMode == <<"List">>
Details(event_index) == <<"Details", event_index>>

KeyCodes == {"q", "r", "t", "Tab", "Esc", "Enter", "Left", "Right", "Up", "Down",
             "h", "j", "k", "l", "x"}

LoadingMsg == [type |-> "Loading"]
SuccessMsg(cals, evs) ==
    [type |-> "Success", calendars |-> cals, events |-> evs, client |-> "client"]
ErrorMsg(e) == [type |-> "Error", error |-> e, client |-> "client"]
IsTerminal(msg) == msg.type \in {"Success", "Error"}

----------------------------------------------------------------------------
\* AppState (src/src/tui/state.rs:33-183)

AppState_new(now) ==
    /\ selected_date = now
    /\ today = now
    /\ calendars = <<>>
    /\ events = <<>>
    /\ loading = TRUE
    /\ error = None
    /\ view_focus = "Calendar"
    /\ selected_event_index = None
    /\ events_view_mode = ListMode
    /\ current_date_range = five_month_span(now)
    /\ current_month = <<year(now), month(now)>>

get_events_for_date(date) ==
    IF date \in DOMAIN events THEN events[date] ELSE <<>>

move_selected_date(days) ==
    selected_date' = checked_add_signed(selected_date, days)

move_to_next_week == move_selected_date(7)

\* a previous-week move that steps back one day only
move_to_prev_week_Day == move_selected_date(-1)

move_to_prev_week == move_selected_date(-7)

\* a toggle that only ever moves the focus to the events pane
toggle_focus_OneWay ==
    view_focus' = "Events"

toggle_focus ==
    view_focus' = IF view_focus = "Calendar" THEN "Events" ELSE "Calendar"

\* a jump that leaves the selected date where it is
jump_to_today_Stays == UNCHANGED selected_date

jump_to_today == selected_date' = today

move_event_selection_down ==
    LET event_count == Len(get_events_for_date(selected_date))
    IN  IF event_count = 0
        THEN UNCHANGED selected_event_index
        ELSE selected_event_index' =
                 Some(IF selected_event_index = None
                      THEN 0
                      ELSE (selected_event_index[1] + 1) % event_count)

\* an upward move that stops at the first event instead of wrapping
move_event_selection_up_NoWrap ==
    LET event_count == Len(get_events_for_date(selected_date))
    IN  IF event_count = 0
        THEN UNCHANGED selected_event_index
        ELSE selected_event_index' =
                 Some(IF selected_event_index = None
                      THEN event_count - 1
                      ELSE IF selected_event_index = Some(0)
                           THEN 0
                           ELSE selected_event_index[1] - 1)

move_event_selection_up ==
    LET event_count == Len(get_events_for_date(selected_date))
    IN  IF event_count = 0
        THEN UNCHANGED selected_event_index
        ELSE selected_event_index' =
                 Some(IF selected_event_index = None \/ selected_event_index = Some(0)
                      THEN event_count - 1
                      ELSE selected_event_index[1] - 1)

\* a select that opens the first event when nothing is selected
select_event_First ==
    IF selected_event_index # None
    THEN events_view_mode' = Details(selected_event_index[1])
    ELSE events_view_mode' = Details(0)

select_event ==
    IF selected_event_index # None
    THEN events_view_mode' = Details(selected_event_index[1])
    ELSE UNCHANGED events_view_mode

exit_event_details == events_view_mode' = ListMode

\* a reset that clears the selection and leaves the view mode alone
reset_event_selection_KeepsMode ==
    /\ selected_event_index' = None
    /\ UNCHANGED events_view_mode

reset_event_selection ==
    /\ selected_event_index' = None
    /\ events_view_mode' = ListMode

\* a predicate that looks at the last month of the window only
needs_date_range_refresh_EndOnly ==
    LET selected_month == <<year(selected_date), month(selected_date)>>
        end_month == <<year(current_date_range.end), month(current_date_range.end)>>
    IN  selected_month = end_month

needs_date_range_refresh ==
    LET selected_month == <<year(selected_date), month(selected_date)>>
        start_month == <<year(current_date_range.start), month(current_date_range.start)>>
        end_month == <<year(current_date_range.end), month(current_date_range.end)>>
    IN  selected_month = start_month \/ selected_month = end_month

\* an eviction that forgets the pinned month
dates_to_remove_NoPin ==
    LET cache_range == twenty_five_month_span(selected_date)
    IN  {date \in DOMAIN events : date < cache_range.start \/ date > cache_range.end}

\* the keys of the cache that trim_events_to_25_month_span removes
dates_to_remove ==
    LET cache_range == twenty_five_month_span(selected_date)
    IN  {date \in DOMAIN events :
            /\ <<year(date), month(date)>> # current_month
            /\ (date < cache_range.start \/ date > cache_range.end)}

trim_events_to_25_month_span ==
    events' = [date \in (DOMAIN events) \ dates_to_remove |-> events[date]]

----------------------------------------------------------------------------
\* Input router (src/src/tui/input.rs:11-95). Each handler sets last_action to
\* the InputAction it returns.

handle_calendar_input(key) ==
    CASE key = "Esc" ->
            /\ last_action' = "Quit"
            /\ UNCHANGED <<selected_date, view_focus, selected_event_index, events_view_mode>>
      [] key \in {"Left", "h"} ->
            /\ move_selected_date(-1)
            /\ reset_event_selection
            /\ last_action' = "None"
            /\ UNCHANGED view_focus
      [] key \in {"Right", "l"} ->
            /\ move_selected_date(1)
            /\ reset_event_selection
            /\ last_action' = "None"
            /\ UNCHANGED view_focus
      [] key \in {"Up", "k"} ->
            /\ move_to_prev_week
            /\ reset_event_selection
            /\ last_action' = "None"
            /\ UNCHANGED view_focus
      [] key \in {"Down", "j"} ->
            /\ move_to_next_week
            /\ reset_event_selection
            /\ last_action' = "None"
            /\ UNCHANGED view_focus
      [] OTHER ->
            /\ last_action' = "None"
            /\ UNCHANGED <<selected_date, view_focus, selected_event_index, events_view_mode>>

handle_events_list_input(key) ==
    CASE key = "Esc" ->
            /\ last_action' = "Quit"
            /\ UNCHANGED <<selected_date, view_focus, selected_event_index, events_view_mode>>
      [] key \in {"Up", "k"} ->
            /\ move_event_selection_up
            /\ last_action' = "None"
            /\ UNCHANGED <<selected_date, view_focus, events_view_mode>>
      [] key \in {"Down", "j"} ->
            /\ move_event_selection_down
            /\ last_action' = "None"
            /\ UNCHANGED <<selected_date, view_focus, events_view_mode>>
      [] key = "Enter" ->
            /\ select_event
            /\ last_action' = "None"
            /\ UNCHANGED <<selected_date, view_focus, selected_event_index>>
      [] OTHER ->
            /\ last_action' = "None"
            /\ UNCHANGED <<selected_date, view_focus, selected_event_index, events_view_mode>>

\* a Details handler whose Esc quits, as it does in the list
handle_events_details_input_EscQuits(key) ==
    CASE key = "Esc" ->
            /\ last_action' = "Quit"
            /\ UNCHANGED <<selected_date, view_focus, selected_event_index, events_view_mode>>
      [] OTHER ->
            /\ last_action' = "None"
            /\ UNCHANGED <<selected_date, view_focus, selected_event_index, events_view_mode>>

\* a Details handler that hands every key but Esc to the list handler
handle_events_details_input_FallsThrough(key) ==
    CASE key = "Esc" ->
            /\ exit_event_details
            /\ last_action' = "None"
            /\ UNCHANGED <<selected_date, view_focus, selected_event_index>>
      [] OTHER -> handle_events_list_input(key)

handle_events_details_input(key) ==
    CASE key = "Esc" ->
            /\ exit_event_details
            /\ last_action' = "None"
            /\ UNCHANGED <<selected_date, view_focus, selected_event_index>>
      [] OTHER ->
            /\ last_action' = "None"
            /\ UNCHANGED <<selected_date, view_focus, selected_event_index, events_view_mode>>

handle_events_input(key) ==
    IF events_view_mode = ListMode
    THEN handle_events_list_input(key)
    ELSE handle_events_details_input(key)

\* a router that hands the non-global keys to the Calendar handler whatever
\* the focus is
handle_key_event_IgnoresFocus(key) ==
    /\ UNCHANGED <<today, calendars, events, loading, error, current_date_range,
                   current_month>>
    /\ CASE key = "q" ->
                /\ last_action' = "Quit"
                /\ UNCHANGED <<selected_date, view_focus, selected_event_index,
                               events_view_mode>>
         [] key = "r" ->
                /\ last_action' = "Refresh"
                /\ UNCHANGED <<selected_date, view_focus, selected_event_index,
                               events_view_mode>>
         [] key = "t" ->
                /\ jump_to_today
                /\ last_action' = "None"
                /\ UNCHANGED <<view_focus, selected_event_index, events_view_mode>>
         [] key = "Tab" ->
                /\ toggle_focus
                /\ last_action' = "None"
                /\ UNCHANGED <<selected_date, selected_event_index, events_view_mode>>
         [] OTHER -> handle_calendar_input(key)

\* a router whose 't' arm assigns the wrong way round: today := selected_date
handle_key_event_TodayAssigned(key) ==
    /\ UNCHANGED <<calendars, events, loading, error, current_date_range,
                   current_month>>
    /\ CASE key = "q" ->
                /\ last_action' = "Quit"
                /\ UNCHANGED <<today, selected_date, view_focus, selected_event_index,
                               events_view_mode>>
         [] key = "r" ->
                /\ last_action' = "Refresh"
                /\ UNCHANGED <<today, selected_date, view_focus, selected_event_index,
                               events_view_mode>>
         [] key = "t" ->
                /\ today' = selected_date
                /\ last_action' = "None"
                /\ UNCHANGED <<selected_date, view_focus, selected_event_index,
                               events_view_mode>>
         [] key = "Tab" ->
                /\ toggle_focus
                /\ last_action' = "None"
                /\ UNCHANGED <<today, selected_date, selected_event_index,
                               events_view_mode>>
         [] OTHER ->
                /\ UNCHANGED today
                /\ IF view_focus = "Calendar"
                   THEN handle_calendar_input(key)
                   ELSE handle_events_input(key)

handle_key_event(key) ==
    /\ UNCHANGED <<today, calendars, events, loading, error, current_date_range,
                   current_month>>
    /\ CASE key = "q" ->
                /\ last_action' = "Quit"
                /\ UNCHANGED <<selected_date, view_focus, selected_event_index,
                               events_view_mode>>
         [] key = "r" ->
                /\ last_action' = "Refresh"
                /\ UNCHANGED <<selected_date, view_focus, selected_event_index,
                               events_view_mode>>
         [] key = "t" ->
                /\ jump_to_today
                /\ last_action' = "None"
                /\ UNCHANGED <<view_focus, selected_event_index, events_view_mode>>
         [] key = "Tab" ->
                /\ toggle_focus
                /\ last_action' = "None"
                /\ UNCHANGED <<selected_date, selected_event_index, events_view_mode>>
         [] OTHER ->
                IF view_focus = "Calendar"
                THEN handle_calendar_input(key)
                ELSE handle_events_input(key)

----------------------------------------------------------------------------
\* The fetch results the service can produce for the fetch window
\* (src/src/tui/fetcher.rs:11-45): every day of the index holds at least one
\* event (entry(date).or_default().push(event)).

EventDays(now) == {now + 1, five_month_span(now).start}

FetchedIndexes(now) ==
    UNION {{[date \in S |-> [i \in 1..n[date] |-> i]] : n \in [S -> 1..MaxEvents]} :
           S \in SUBSET EventDays(now)}

FetchOutcomes(now) ==
    {SuccessMsg(<<"primary">>, idx) : idx \in FetchedIndexes(now)}
        \cup {ErrorMsg("Failed to fetch calendars")}

----------------------------------------------------------------------------
\* Background loader (src/src/tui/loader.rs:28-66)

\* a loader whose task is spawned before Loading is sent, and never sends it
DataLoader_new_NoLoading ==
    /\ receiver' = <<>>
    /\ sent' = <<>>
    /\ fetch_task' = "running"
    /\ data_loader' = Some(1)

\* DataLoader::new up to its return: the channel is created, Loading is sent,
\* the fetch task is spawned.
DataLoader_new ==
    /\ receiver' = <<LoadingMsg>>
    /\ sent' = <<LoadingMsg>>
    /\ fetch_task' = "running"
    /\ data_loader' = Some(1)

\* a task whose terminal send needs a live receiver
FetchTaskSend_NeedsReceiver(msg) ==
    /\ data_loader # None
    /\ sent' = Append(sent, msg)
    /\ receiver' = Append(receiver, msg)
    /\ fetch_task' = "done"

\* The spawned task: fetch_calendar_data returns and its result is sent once.
\* The send fails silently when the receiver was dropped (let _ = sender.send).
FetchTaskSend(msg) ==
    /\ sent' = Append(sent, msg)
    /\ receiver' = IF data_loader # None THEN Append(receiver, msg) ELSE receiver
    /\ fetch_task' = "done"

\* loader.rs:40-55: the task calls fetch_calendar_data(&mut client, ..) and
\* then moves the client into the message it sends
fetch_and_send_client ==
    /\ client_log' = Append(client_log, [lane |-> "task", op |-> "fetch_calendar_data"])
    /\ task_client' = FALSE
    /\ UNCHANGED render_client

FetchTask ==
    /\ fetch_task = "running"
    /\ \E msg \in FetchOutcomes(today) : FetchTaskSend(msg)
    /\ fetch_and_send_client
    /\ UNCHANGED <<app_pc, data_loader, last_action, folded>>
    /\ UNCHANGED <<appVars, clientVars, trimVars, keyVars, fetchVars, dateVars, timeVars, mainVars, storeVars, lifeVars>>

----------------------------------------------------------------------------
\* run_tui and run_app (src/src/tui/app.rs:27-133)

\* a hand-over that leaves a second handle of the client with the render lane
move_client_to_task_Shared ==
    /\ task_client' = TRUE
    /\ UNCHANGED render_client

\* app.rs:40 and loader.rs:29, 38: run_tui's client is moved into
\* DataLoader::new and from there into the spawned `async move` task
move_client_to_task ==
    /\ task_client' = TRUE
    /\ render_client' = FALSE

run_tui ==
    /\ app_pc = "start"
    /\ DataLoader_new
    /\ move_client_to_task
    /\ app_pc' = "running"
    /\ UNCHANGED <<last_action, folded, client_log>>
    /\ UNCHANGED <<appVars, clientVars, trimVars, keyVars, fetchVars, dateVars, timeVars, mainVars, storeVars, lifeVars>>

\* an Error arm that records the error but leaves the loading flag set
FoldError_StillLoading(message) ==
    /\ error' = Some(message.error)
    /\ data_loader' = None
    /\ UNCHANGED <<loading, calendars, events>>

FoldLoading ==
    /\ loading' = TRUE
    /\ error' = None
    /\ UNCHANGED <<calendars, events, data_loader>>

\* a Success arm that leaves the loading flag as it was
FoldSuccess_StillLoading(message) ==
    /\ calendars' = message.calendars
    /\ events' = message.events
    /\ error' = None
    /\ data_loader' = None
    /\ UNCHANGED loading

FoldSuccess(message) ==
    /\ calendars' = message.calendars
    /\ events' = message.events
    /\ loading' = FALSE
    /\ error' = None
    /\ data_loader' = None

\* an Error arm that keeps the loader handle
FoldError_KeepsLoader(message) ==
    /\ loading' = FALSE
    /\ error' = Some(message.error)
    /\ UNCHANGED <<calendars, events, data_loader>>

FoldError(message) ==
    /\ loading' = FALSE
    /\ error' = Some(message.error)
    /\ data_loader' = None
    /\ UNCHANGED <<calendars, events>>

\* a receive that waits: it returns only once a message is queued
try_recv_Waits ==
    [returns |-> receiver # <<>>,
     message |-> IF receiver = <<>> THEN None ELSE Some(Head(receiver))]

\* loader.rs:63-65: receiver.try_recv().ok() returns at once, with the next
\* queued message, or with None when nothing is queued (the channel is empty
\* or its sender is gone)
try_recv ==
    [returns |-> TRUE,
     message |-> IF receiver = <<>> THEN None ELSE Some(Head(receiver))]

\* app.rs:76-77, 84-85: a terminal arm binds the message's client and drops it
drop_client(message) ==
    /\ client_log' = IF IsTerminal(message)
                     THEN Append(client_log, [lane |-> "render", op |-> "drop"])
                     ELSE client_log
    /\ UNCHANGED <<render_client, task_client>>

\* app.rs:60-89: at most one pending message is taken and folded into state
DrainLoader ==
    /\ app_pc = "running"
    /\ data_loader # None
    /\ try_recv.returns
    /\ try_recv.message # None
    /\ LET message == try_recv.message[1]
       IN  /\ CASE message.type = "Loading" -> FoldLoading
                [] message.type = "Success" -> FoldSuccess(message)
                [] message.type = "Error" -> FoldError(message)
           /\ folded' = Append(folded, message)
           /\ drop_client(message)
    /\ receiver' = Tail(receiver)
    /\ UNCHANGED <<selected_date, today, view_focus, selected_event_index,
                   events_view_mode, current_date_range, current_month>>
    /\ UNCHANGED <<app_pc, fetch_task, last_action, sent>>
    /\ UNCHANGED <<clientVars, trimVars, keyVars, fetchVars, dateVars, timeVars, mainVars, storeVars, lifeVars>>

InNavBounds(date) ==
    /\ date >= today - MaxBackDays
    /\ date <= today + MaxFwdDays

\* a loop that also ends when the router returns Refresh
PollKey_EndsOnRefresh(key) ==
    /\ app_pc = "running"
    /\ data_loader # None => try_recv.returns
    /\ handle_key_event(key)
    /\ InNavBounds(selected_date')
    /\ IF last_action' \in {"Quit", "Refresh"}
       THEN app_pc' = "quit" /\ data_loader' = None
       ELSE UNCHANGED <<app_pc, data_loader>>
    /\ UNCHANGED <<receiver, fetch_task, sent, folded>>
    /\ UNCHANGED <<clientVars, trimVars, keyVars, fetchVars, dateVars, ownerVars, timeVars, mainVars, storeVars, lifeVars>>

\* app.rs:119-129: a key was polled; it is routed and the action applied.
\* The tick gets here once the receive of app.rs:61 has returned.
\* Quit leaves the loop: run_app and run_tui return and the loader handle, a
\* local of run_tui, is dropped.
PollKey(key) ==
    /\ app_pc = "running"
    /\ data_loader # None => try_recv.returns
    /\ handle_key_event(key)
    /\ InNavBounds(selected_date')
    /\ IF last_action' = "Quit"
       THEN app_pc' = "quit" /\ data_loader' = None
       ELSE UNCHANGED <<app_pc, data_loader>>
    /\ UNCHANGED <<receiver, fetch_task, sent, folded>>
    /\ UNCHANGED <<clientVars, trimVars, keyVars, fetchVars, dateVars, ownerVars, timeVars, mainVars, storeVars, lifeVars>>

PollInput == \E key \in KeyCodes : PollKey(key)

\* main.rs:10 and 38-50: the loop has quit, run_tui returns Ok and main
\* returns. main is the future #[tokio::main] blocks on: when it returns the
\* runtime is shut down, and a spawned task that has not finished is dropped
\* at the await it is suspended at, the client it owns with it.
main_returns ==
    /\ app_pc = "quit"
    /\ exit_code = None
    /\ exit_code' = Some(0)
    /\ IF fetch_task = "running"
       THEN /\ fetch_task' = "cancelled"
            /\ task_client' = FALSE
       ELSE UNCHANGED <<fetch_task, task_client>>
    /\ UNCHANGED <<app_pc, data_loader, receiver, last_action, sent, folded>>
    /\ UNCHANGED <<render_client, client_log>>
    /\ UNCHANGED <<mpc, args, store, main_tokens, steps>>
    /\ UNCHANGED <<appVars, clientVars, trimVars, keyVars, fetchVars, dateVars, timeVars, storeVars, lifeVars>>

----------------------------------------------------------------------------
\* CalendarClient (src/src/calendar/client.rs) and the service it talks to

\* a list_* answer of the service has at most MaxPages pages of at most
\* MaxItems items; at most MaxCalls list_* calls are started; the provider
\* issues at most MaxIssued access tokens
MaxPages == 3
MaxItems == 1
MaxCalls == 2
MaxIssued == 2

\* Result<T>
Ok(value) == [ok |-> TRUE, value |-> value]
Err(e) == [ok |-> FALSE, error |-> e]

\* The pages the service holds for one list call: page i carries the
\* continuation token of page i + 1, the last page carries none.
ServicePages ==
    UNION {{[i \in 1..n |->
                [items |-> [k \in 1..size[i] |-> <<i, k>>],
                 next_page_token |-> IF i < n THEN Some(i + 1) ELSE None]] :
            size \in [1..n -> 0..MaxItems]} : n \in 1..MaxPages}

\* the page the service returns for a request carrying continuation token pt
ServerPage(pt) == pages[IF pt = None THEN 1 ELSE pt[1]]

\* What one request can come back with: a transport error, a 401, another
\* error status, a success status with an undecodable body, a decodable page.
Responses == {"transport", "unauthorized", "error_status", "undecodable", "ok"}

\* the history of one with_token_refresh invocation
NoCall == [requests |-> <<>>, refreshes |-> 0, saves |-> 0, new_token |-> None,
           new_refresh_token |-> None, result |-> None]

\* with_token_refresh goes on to its next step
Continue(wn, next) ==
    /\ w' = wn
    /\ cpc' = next
    /\ UNCHANGED <<all_items, page_token, ret>>

\* a page loop that keeps only the last page
extend_Overwrite(acc, items) == items

\* all_calendars.extend(response.items) / all_events.extend(response.items)
extend(acc, items) == acc \o items

\* a page loop that, when a page fails, returns the items it has so far
Finish_ReturnsPartial(wn, r) ==
    /\ w' = [wn EXCEPT !.result = Some(r)]
    /\ IF r.ok
       THEN /\ all_items' = extend(all_items, r.value.items)
            /\ IF r.value.next_page_token # None
               THEN /\ page_token' = r.value.next_page_token
                    /\ cpc' = "first"
                    /\ UNCHANGED ret
               ELSE /\ cpc' = "returned"
                    /\ ret' = Some(Ok(all_items'))
                    /\ UNCHANGED page_token
       ELSE /\ cpc' = "returned"
            /\ ret' = Some(Ok(all_items))
            /\ UNCHANGED <<all_items, page_token>>

\* client.rs:62-72 and 117-127: with_token_refresh returned r to the page loop
\* of list_calendars / list_events. An error leaves the call (the ? operator);
\* a page is accumulated and the loop goes on while it carries a token.
Finish(wn, r) ==
    /\ w' = [wn EXCEPT !.result = Some(r)]
    /\ IF r.ok
       THEN /\ all_items' = extend(all_items, r.value.items)
            /\ IF r.value.next_page_token # None
               THEN /\ page_token' = r.value.next_page_token
                    /\ cpc' = "first"
                    /\ UNCHANGED ret
               ELSE /\ cpc' = "returned"
                    /\ ret' = Some(Ok(all_items'))
                    /\ UNCHANGED page_token
       ELSE /\ cpc' = "returned"
            /\ ret' = Some(Err(r.error))
            /\ UNCHANGED <<all_items, page_token>>

\* client.rs:41-47 and 77-96: a list call starts with no items and no token
StartList(kind) ==
    /\ cpc \in {"idle", "returned"}
    /\ ncalls < MaxCalls
    /\ ncalls' = ncalls + 1
    /\ call' = kind
    /\ all_items' = <<>>
    /\ page_token' = None
    /\ ret' = None
    /\ wire' = <<>>
    /\ w' = NoCall
    /\ cpc' = "first"
    /\ call_refreshes' = 0
    /\ UNCHANGED <<tokens, disk, issued, pages>>
    /\ UNCHANGED <<appVars, loopVars, trimVars, keyVars, fetchVars, dateVars, ownerVars, timeVars, mainVars, storeVars>>

list_calendars == StartList("list_calendars")

list_events == StartList("list_events")

\* the request api_call builds: bearer token and, after the first page, pageToken
api_call(access_token, resp) ==
    [call |-> call, access_token |-> access_token, page_token |-> page_token,
     response |-> resp]

\* a client that also refreshes on other error statuses
is_unauthorized_AnyErrorStatus(resp) == resp \in {"unauthorized", "error_status"}

\* response.status() == StatusCode::UNAUTHORIZED
is_unauthorized(resp) == resp = "unauthorized"

\* response.error_for_status().context(e1)?.json::<T>().await.context(e2)
decode(resp, e1, e2) ==
    CASE resp = "error_status" -> Err(e1)
      [] resp = "undecodable" -> Err(e2)
      [] OTHER -> Ok(ServerPage(page_token))

\* a first attempt that sends the access token the list call started with
first_token_OfCallStart ==
    IF wire = <<>> THEN tokens.access_token ELSE wire[1].access_token

\* client.rs:139: api_call(self.tokens.access_token.clone())
first_token == tokens.access_token

\* client.rs:139-144 and 167-175: the first attempt, with the current token
FirstAttempt ==
    /\ cpc = "first"
    /\ \E resp \in Responses :
          LET req == api_call(first_token, resp)
              wn == [NoCall EXCEPT !.requests = <<req>>]
          IN  /\ wire' = Append(wire, req)
              /\ IF resp = "transport"
                 THEN Finish(wn, Err("API call failed"))
                 ELSE IF is_unauthorized(resp)
                 THEN Continue(wn, "refresh")
                 ELSE Finish(wn, decode(resp, "API returned error status",
                                        "Failed to parse response JSON"))
    /\ UNCHANGED <<tokens, disk, issued, call, pages, ncalls>>
    /\ UNCHANGED <<appVars, loopVars, trimVars, keyVars, fetchVars, dateVars, ownerVars, timeVars, mainVars, storeVars, lifeVars>>

\* an update that never takes the refresh token the provider returned
update_tokens_KeepsRefreshToken(current, token_result) ==
    [access_token |-> token_result.access_token,
     refresh_token |-> current.refresh_token]

\* client.rs:187-193: the access token is replaced, the refresh token only
\* when the provider issued a new one
update_tokens(current, token_result) ==
    [access_token |-> token_result.access_token,
     refresh_token |-> IF token_result.refresh_token # None
                       THEN token_result.refresh_token[1]
                       ELSE current.refresh_token]

\* client.rs:178-194: the token exchange; its failure fails the refresh, its
\* result is put into self.tokens
refresh_access_token_exchange ==
    /\ cpc = "refresh"
    /\ call_refreshes' = call_refreshes + 1
    /\ LET wn == [w EXCEPT !.refreshes = @ + 1]
       IN  \E outcome \in {"fails", "access_token", "access_and_refresh_token"} :
              /\ outcome # "fails" => issued < MaxIssued
              /\ IF outcome = "fails"
                 THEN /\ Finish(wn, Err("Failed to refresh access token after 401"))
                      /\ UNCHANGED <<tokens, issued>>
                 ELSE LET token_result ==
                              [access_token |-> issued + 1,
                               refresh_token |->
                                   IF outcome = "access_and_refresh_token"
                                   THEN Some(issued + 1)
                                   ELSE None]
                      IN  /\ issued' = issued + 1
                          /\ tokens' = update_tokens(tokens, token_result)
                          /\ Continue([wn EXCEPT
                                          !.new_token = Some(token_result.access_token),
                                          !.new_refresh_token = token_result.refresh_token],
                                      "save")
    /\ UNCHANGED <<disk, wire, call, pages, ncalls>>
    /\ UNCHANGED <<appVars, loopVars, trimVars, keyVars, fetchVars, dateVars, ownerVars, timeVars, mainVars, storeVars>>

\* a refresh that reports success without writing the tokens file
save_Skipped(ok) == UNCHANGED disk

\* Tokens::save (src/src/auth/tokens.rs:35-51): the pair is written, or not
save(ok) == IF ok THEN disk' = tokens ELSE UNCHANGED disk

\* client.rs:196-201: the refreshed pair is saved; a failed save fails the refresh
refresh_access_token_save ==
    /\ cpc = "save"
    /\ \E ok \in BOOLEAN :
          /\ save(ok)
          /\ IF ok
             THEN Continue([w EXCEPT !.saves = @ + 1], "retry")
             ELSE Finish(w, Err("Failed to refresh access token after 401"))
    /\ UNCHANGED <<tokens, issued, wire, call, pages, ncalls>>
    /\ UNCHANGED <<appVars, loopVars, trimVars, keyVars, fetchVars, dateVars, ownerVars, timeVars, mainVars, storeVars, lifeVars>>

\* a retry that sends the token captured before the refresh
retry_token_Stale == w.requests[1].access_token

\* client.rs:151: the retry reads self.tokens.access_token again
retry_token == tokens.access_token

\* a retry that refreshes again on a second 401
still_unauthorized_RefreshAgain(wn) == Continue(wn, "refresh")

\* client.rs:156-158: a second 401 fails the call
still_unauthorized(wn) == Finish(wn, Err("Still unauthorized after token refresh"))

\* client.rs:151-166: the retry after a successful refresh
RetryAttempt ==
    /\ cpc = "retry"
    /\ \E resp \in Responses :
          LET req == api_call(retry_token, resp)
              wn == [w EXCEPT !.requests = Append(@, req)]
          IN  /\ wire' = Append(wire, req)
              /\ IF resp = "transport"
                 THEN Finish(wn, Err("API call failed on retry after token refresh"))
                 ELSE IF is_unauthorized(resp)
                 THEN still_unauthorized(wn)
                 ELSE Finish(wn, decode(resp, "API returned error status on retry",
                                        "Failed to parse response JSON on retry"))
    /\ UNCHANGED <<tokens, disk, issued, call, pages, ncalls>>
    /\ UNCHANGED <<appVars, loopVars, trimVars, keyVars, fetchVars, dateVars, ownerVars, timeVars, mainVars, storeVars, lifeVars>>

----------------------------------------------------------------------------
\* The client and the eviction are not running in Spec

ClientOff ==
    /\ tokens = [access_token |-> 0, refresh_token |-> 0]
    /\ disk = [access_token |-> 0, refresh_token |-> 0]
    /\ cpc = "off"
    /\ call = "none"
    /\ page_token = None
    /\ all_items = <<>>
    /\ ret = None
    /\ pages = <<>>
    /\ wire = <<>>
    /\ w = NoCall
    /\ issued = 0
    /\ ncalls = 0

TrimOff ==
    /\ tpc = "off"
    /\ events0 = <<>>

KeysOff ==
    /\ key_in = ""
    /\ pre = None

FetchOff ==
    /\ fpc = "off"
    /\ service = <<>>
    /\ fetched = <<>>
    /\ cal_i = 0
    /\ all_events_by_date = <<>>
    /\ outcomes = <<>>
    /\ fetch_ret = None

LifeOff ==
    /\ call_refreshes = 0

StoreOff ==
    /\ store_init = [config_dir |-> FALSE, file |-> None]
    /\ store_log = <<>>

MainOff ==
    /\ mpc = "off"
    /\ args = None
    /\ store = [config_dir |-> FALSE, file |-> None]
    /\ main_tokens = None
    /\ steps = <<>>
    /\ exit_code = None

TimeOff ==
    /\ time_min = None
    /\ time_max = None

OwnerOff ==
    /\ render_client = FALSE
    /\ task_client = FALSE
    /\ client_log = <<>>

DatesOff ==
    /\ dpc = "off"
    /\ span = None
    /\ needs = None

Init ==
    /\ \E now \in Todays : AppState_new(now)
    /\ app_pc = "start"
    /\ data_loader = None
    /\ receiver = <<>>
    /\ fetch_task = "none"
    /\ last_action = "None"
    /\ sent = <<>>
    /\ folded = <<>>
    /\ ClientOff
    /\ TrimOff
    /\ KeysOff
    /\ FetchOff
    /\ DatesOff
    /\ render_client = TRUE
    /\ task_client = FALSE
    /\ client_log = <<>>
    /\ TimeOff
    /\ MainOff
    /\ StoreOff
    /\ LifeOff

Next ==
    \/ run_tui
    \/ FetchTask
    \/ DrainLoader
    \/ PollInput
    \/ main_returns

Spec == Init /\ [][Next]_vars

----------------------------------------------------------------------------
\* Claims about the running application (Spec)

InRetentionWindow(date) ==
    LET cache_range == twenty_five_month_span(selected_date)
    IN  date >= cache_range.start /\ date <= cache_range.end

\* C6: whenever a key changes selected_date (a Calendar-focused directional
\* key, or 't' in any focus and view mode), selected_event_index is None and
\* the view mode is List afterwards.
C6_DateChangeResetsSelection ==
    [][selected_date' # selected_date
         => selected_event_index' = None /\ events_view_mode' = ListMode]_vars

\* C7: in every reachable state of the running application the event cache
\* holds no day outside the retention window around selected_date, unless
\* the day lies in the pinned month.
C7_CacheWithinRetention ==
    \A date \in DOMAIN events :
        InRetentionWindow(date) \/ <<year(date), month(date)>> = current_month

\* C9: the messages a loader sends are Loading first, receivable as soon as
\* DataLoader::new has returned, then exactly one terminal message once the
\* fetch has finished, and nothing after it.
C9_LoaderMessageSequence ==
    /\ fetch_task = "none" => sent = <<>>
    /\ fetch_task = "running" => sent = <<LoadingMsg>>
    /\ fetch_task = "done" =>
           /\ Len(sent) = 2
           /\ sent[1] = LoadingMsg
           /\ IsTerminal(sent[2])
    /\ (app_pc = "running" /\ folded = <<>>) =>
           /\ receiver # <<>>
           /\ Head(receiver) = LoadingMsg

C9_Witness ==
    /\ fetch_task = "done"
    /\ Len(sent) = 2
    /\ folded = sent

\* C10: at most one loader handle exists, and once a Success or Error message
\* has been folded into state the handle is None, so the terminal message is
\* the last message ever folded.
C10_LoaderDroppedAfterTerminal ==
    /\ data_loader \in {None, Some(1)}
    /\ data_loader # None => fetch_task # "none"
    /\ \A i \in 1..Len(folded) :
           IsTerminal(folded[i]) => data_loader = None /\ i = Len(folded)

C10_Witness ==
    /\ app_pc = "running"
    /\ folded # <<>>
    /\ folded[Len(folded)].type = "Error"
    /\ data_loader = None

----------------------------------------------------------------------------
\* SpecTrim: trim_events_to_25_month_span applied to arbitrary selected dates,
\* pinned months and cache contents.

\* at most MaxCacheKeys days in a cache of SpecTrim
MaxCacheKeys == 2

TrimSelectedDates ==
    {from_ymd_opt(2024, 1, 15), from_ymd_opt(2024, 2, 29), from_ymd_opt(2025, 6, 15),
     from_ymd_opt(2025, 12, 31)}

TrimPinnedMonths == {<<2025, 6>>, <<2022, 11>>, <<2027, 12>>}

\* the days around both ends of the window of sel, days of the pinned month,
\* sel itself and days far from everything
TrimKeys(sel, pin) ==
    LET r == twenty_five_month_span(sel)
    IN  {r.start - 1, r.start, r.end, r.end + 1, sel,
         from_ymd_opt(pin[1], pin[2], 1), last_day_of_month(pin[1], pin[2]),
         from_ymd_opt(2020, 3, 1), from_ymd_opt(2030, 9, 30)}

TrimCaches(sel, pin) ==
    UNION {{[date \in S |-> [i \in 1..n[date] |-> i]] : n \in [S -> 1..MaxEvents]} :
           S \in {T \in SUBSET TrimKeys(sel, pin) : Cardinality(T) <= MaxCacheKeys}}

LoopOff ==
    /\ app_pc = "off"
    /\ data_loader = None
    /\ receiver = <<>>
    /\ fetch_task = "none"
    /\ last_action = "None"
    /\ sent = <<>>
    /\ folded = <<>>

InitTrim ==
    /\ \E now \in Todays : today = now /\ current_date_range = five_month_span(now)
    /\ selected_date \in TrimSelectedDates
    /\ current_month \in TrimPinnedMonths
    /\ events \in TrimCaches(selected_date, current_month)
    /\ events0 = events
    /\ tpc = "pre"
    /\ calendars = <<>>
    /\ loading = FALSE
    /\ error = None
    /\ view_focus = "Calendar"
    /\ selected_event_index = None
    /\ events_view_mode = ListMode
    /\ LoopOff
    /\ ClientOff
    /\ KeysOff
    /\ FetchOff
    /\ DatesOff
    /\ OwnerOff
    /\ TimeOff
    /\ MainOff
    /\ StoreOff
    /\ LifeOff

Trim ==
    /\ tpc = "pre"
    /\ trim_events_to_25_month_span
    /\ tpc' = "post"
    /\ UNCHANGED <<selected_date, today, calendars, loading, error, view_focus,
                   selected_event_index, events_view_mode, current_date_range,
                   current_month>>
    /\ UNCHANGED events0
    /\ UNCHANGED <<loopVars, clientVars, keyVars, fetchVars, dateVars, ownerVars, timeVars, mainVars, storeVars, lifeVars>>

NextTrim == Trim

SpecTrim == InitTrim /\ [][NextTrim]_vars

\* months counted from year 0
MonthIndex(date) == year(date) * 12 + month(date) - 1

\* the retention window: the month of selected_date, twelve months before it
\* and twelve months after it, first day to last day
InWindowMonths(date) ==
    /\ MonthIndex(date) >= MonthIndex(selected_date) - 12
    /\ MonthIndex(date) <= MonthIndex(selected_date) + 12

InPinnedMonth(date) == <<year(date), month(date)>> = current_month

\* C8: right after trim_events_to_25_month_span every remaining key lies in
\* the retention window or in the pinned month, and every entry that was in
\* the window or in the pinned month is still there with its events unchanged.
C8_TrimKeepsExactlyWindowAndPinned ==
    tpc = "post" =>
        /\ \A date \in DOMAIN events : InWindowMonths(date) \/ InPinnedMonth(date)
        /\ \A date \in DOMAIN events0 :
               (InWindowMonths(date) \/ InPinnedMonth(date)) =>
                   date \in DOMAIN events /\ events[date] = events0[date]

\* an entry was evicted while a pinned-month entry outside the window survived
C8_Witness ==
    /\ tpc = "post"
    /\ \E date \in DOMAIN events0 : date \notin DOMAIN events
    /\ \E date \in DOMAIN events : InPinnedMonth(date) /\ ~InWindowMonths(date)

----------------------------------------------------------------------------
\* SpecClient: one CalendarClient, created from the stored credentials
\* (authenticate loads or saves them, src/src/auth/mod.rs:12-24), serving
\* list_calendars and list_events calls.

InitClient ==
    /\ tokens = [access_token |-> 0, refresh_token |-> 0]
    /\ disk = tokens
    /\ cpc = "idle"
    /\ call = "none"
    /\ page_token = None
    /\ all_items = <<>>
    /\ ret = None
    /\ pages \in ServicePages
    /\ wire = <<>>
    /\ w = NoCall
    /\ issued = 0
    /\ ncalls = 0
    /\ \E now \in Todays : AppState_new(now)
    /\ LoopOff
    /\ TrimOff
    /\ KeysOff
    /\ FetchOff
    /\ DatesOff
    /\ OwnerOff
    /\ TimeOff
    /\ MainOff
    /\ StoreOff
    /\ LifeOff

NextClient ==
    \/ list_calendars
    \/ list_events
    \/ FirstAttempt
    \/ refresh_access_token_exchange
    \/ refresh_access_token_save
    \/ RetryAttempt

SpecClient == InitClient /\ [][NextClient]_vars

----------------------------------------------------------------------------
\* Claims about the API client (SpecClient). w is the history of the current
\* with_token_refresh invocation, wire that of the current list call.

Response(i) == w.requests[i].response

\* C1: first response 401, refresh succeeded, retried response a decodable
\* success: the call returns the decoded page, exactly two requests were
\* sent, exactly one refresh and one save occurred, and the second request
\* carried the refreshed access token, not the old one.
C1_RetryAfterRefreshSucceeds ==
    (/\ Len(w.requests) >= 2
     /\ Response(1) = "unauthorized"
     /\ Response(Len(w.requests)) = "ok")
    => /\ w.result = Some(Ok(ServerPage(w.requests[1].page_token)))
       /\ Len(w.requests) = 2
       /\ w.refreshes = 1
       /\ w.saves = 1
       /\ w.new_token # None
       /\ w.requests[2].access_token = w.new_token[1]
       /\ w.requests[2].access_token # w.requests[1].access_token
       /\ w.requests[2].page_token = w.requests[1].page_token
       /\ w.requests[2].call = w.requests[1].call

C1_Witness ==
    /\ Len(w.requests) = 2
    /\ Response(1) = "unauthorized"
    /\ Response(2) = "ok"
    /\ w.result # None
    /\ w.result[1].ok
    /\ w.result[1].value.items # <<>>

\* C2: first response and retried response both 401: the call fails, exactly
\* one refresh was attempted and no third request is sent.
C2_SecondUnauthorizedIsFatal ==
    (/\ Len(w.requests) >= 2
     /\ Response(1) = "unauthorized"
     /\ Response(2) = "unauthorized")
    => /\ w.result = Some(Err("Still unauthorized after token refresh"))
       /\ cpc = "returned"
       /\ ret = Some(Err("Still unauthorized after token refresh"))
       /\ w.refreshes = 1
       /\ Len(w.requests) = 2

C2_Witness ==
    /\ Len(w.requests) = 2
    /\ Response(1) = "unauthorized"
    /\ Response(2) = "unauthorized"
    /\ cpc = "returned"

\* C3: once refresh_access_token has returned success, the persisted pair
\* equals the in-memory pair and holds the refreshed access token, before
\* the retry is sent and after it, whatever the retry comes back with.
C3_RefreshedTokenIsPersisted ==
    w.saves >= 1 =>
        /\ disk = tokens
        /\ w.new_token = Some(disk.access_token)
        /\ \A i \in 2..Len(w.requests) : w.requests[i].access_token = disk.access_token

\* the retry after a persisted refresh failed
C3_Witness ==
    /\ w.saves = 1
    /\ Len(w.requests) = 2
    /\ Response(2) \in {"unauthorized", "error_status", "transport", "undecodable"}
    /\ w.result # None
    /\ disk = tokens
    /\ disk.access_token # 0

\* C4: a transport error, an error status other than 401 or an undecodable
\* body on the first attempt fails the call after exactly one request, with
\* no refresh and no save; an error status other than 401 or an undecodable
\* body on the retry fails the call with no third request.
C4_OtherFailuresAreNotRetried ==
    /\ (Len(w.requests) >= 1
          /\ Response(1) \in {"transport", "error_status", "undecodable"})
       => /\ w.result # None
          /\ ~w.result[1].ok
          /\ cpc = "returned"
          /\ ret = Some(Err(w.result[1].error))
          /\ Len(w.requests) = 1
          /\ w.refreshes = 0
          /\ w.saves = 0
    /\ (Len(w.requests) >= 2 /\ Response(2) \in {"error_status", "undecodable"})
       => /\ w.result # None
          /\ ~w.result[1].ok
          /\ cpc = "returned"
          /\ ret = Some(Err(w.result[1].error))
          /\ Len(w.requests) = 2

C4_Witness ==
    /\ cpc = "returned"
    /\ \/ Len(w.requests) = 1 /\ Response(1) = "undecodable"
       \/ Len(w.requests) = 2 /\ Response(2) = "error_status"
    /\ Len(wire) >= 2

\* the items of pages 1..n of the service, in page order
RECURSIVE ItemsUpTo(_)
ItemsUpTo(n) == IF n = 0 THEN <<>> ELSE ItemsUpTo(n - 1) \o pages[n].items

\* C5: the page requests go out in page order, each request after the first
\* carrying the continuation token of the page before it (a retry repeats the
\* token of the request it retries), no request follows the page without a
\* token, and the call returns all pages' items concatenated in page order.
C5_PaginationConcatenatesPages ==
    /\ \A i \in 1..Len(wire) :
          IF i = 1
          THEN wire[i].page_token = None
          ELSE IF wire[i - 1].response = "ok"
               THEN /\ ServerPage(wire[i - 1].page_token).next_page_token # None
                    /\ wire[i].page_token
                           = ServerPage(wire[i - 1].page_token).next_page_token
               ELSE wire[i].page_token = wire[i - 1].page_token
    /\ (cpc = "returned" /\ ret # None /\ ret[1].ok)
       => /\ ret[1].value = ItemsUpTo(Len(pages))
          /\ Cardinality({i \in 1..Len(wire) : wire[i].response = "ok"}) = Len(pages)
          /\ wire[Len(wire)].response = "ok"
          /\ ServerPage(wire[Len(wire)].page_token).next_page_token = None

C5_Witness ==
    /\ cpc = "returned"
    /\ call = "list_events"
    /\ ret # None
    /\ ret[1].ok
    /\ Len(pages) >= 2
    /\ Len(ret[1].value) >= 2
    /\ Len(wire) = Len(pages)

----------------------------------------------------------------------------
\* The render loop and the fetch in flight (Spec)

NavFields == <<selected_date, view_focus, selected_event_index, events_view_mode>>

\* C11: the render loop never waits for the fetch. While the spawned task has
\* not yet sent its terminal message, whether or not a message is queued, a
\* key delivered to the loop is routed and applied at once: a quit key ends
\* the loop and a navigation key changes the navigation fields.
C11_KeysAppliedWhileFetchInFlight ==
    (app_pc = "running" /\ fetch_task = "running") =>
        /\ ENABLED (PollInput /\ app_pc' = "quit")
        /\ ENABLED (PollInput /\ NavFields' # NavFields)

\* the fetch is in flight, nothing is queued, and keys have moved the date
C11_Witness ==
    /\ app_pc = "running"
    /\ fetch_task = "running"
    /\ receiver = <<>>
    /\ selected_date # today
    /\ view_focus = "Events"

----------------------------------------------------------------------------
\* The status bar (src/src/tui/app.rs:135-210) and the loop that keeps ticking

\* app.rs:143-203: the status text. Loading is tested first, then the error,
\* and the key hints of the (focus, mode) pair come last.
status_text(app_loading, app_error, focus, mode) ==
    IF app_loading
    THEN <<"Loading calendars and events...">>
    ELSE IF app_error # None
         THEN <<"Error: ", app_error[1]>>
         ELSE CASE focus = "Calendar" -> <<"Keys: ", "Navigate", "Today", "Switch View", "Refresh", "Quit">>
                [] focus = "Events" /\ mode = ListMode ->
                       <<"Keys: ", "Select", "Details", "Switch View", "Today", "Quit">>
                [] OTHER -> <<"Keys: ", "Back to List", "Switch View", "Quit">>

render_status_bar ==
    status_text(loading, error, view_focus, events_view_mode)

\* run_app's loop comes back to the drain of app.rs:60-89 every 100 ms
\* (app.rs:119) for as long as it runs: a queued message is eventually folded.
SpecLive == Spec /\ WF_vars(DrainLoader)

ErrorSent == sent # <<>> /\ sent[Len(sent)].type = "Error"
ErrorFolded == folded # <<>> /\ folded[Len(folded)].type = "Error"

\* C12: when the background fetch fails and the render loop keeps ticking, the
\* loop eventually has loading = FALSE and error = Some(the failure's message)
\* (or the user has quit first). Folding the failure does not end the loop,
\* keys are still routed afterwards, and the status bar then shows the error:
\* the loading text has priority over the error, the error over the key hints.
C12_FetchFailureIsShown ==
    /\ [](ErrorFolded =>
            /\ loading = FALSE
            /\ error = Some(sent[Len(sent)].error)
            /\ render_status_bar = <<"Error: ", sent[Len(sent)].error>>
            /\ app_pc = "running" => ENABLED (PollInput /\ NavFields' # NavFields))
    /\ [](\A e \in {None, Some("Failed to fetch calendars")},
             f \in {"Calendar", "Events"}, m \in {ListMode, Details(0)} :
            /\ status_text(TRUE, e, f, m) = <<"Loading calendars and events...">>
            /\ status_text(FALSE, Some("x"), f, m) = <<"Error: ", "x">>
            /\ status_text(FALSE, None, f, m)[1] = "Keys: ")
    /\ [][(~ErrorFolded /\ ErrorFolded') => app_pc' = "running"]_vars
    /\ (ErrorSent ~> (app_pc = "quit" \/ (loading = FALSE /\ error # None)))

\* the failure was folded and keys were routed after it
C12_Witness ==
    /\ ErrorFolded
    /\ app_pc = "running"
    /\ error = Some("Failed to fetch calendars")
    /\ loading = FALSE
    /\ selected_date # today
    /\ view_focus = "Events"

----------------------------------------------------------------------------
\* SpecFetch: one run of fetch_calendar_data (src/src/tui/fetcher.rs:11-70)
\* against a service holding some calendars and their events.

\* at most MaxCalendars calendars, holding at most MaxServiceEvents events
MaxCalendars == 2
MaxServiceEvents == 2

\* A string of a start field, by what parsing makes of it: `day` is the date
\* written in the string (for an RFC 3339 dateTime, the date in the string's
\* own UTC offset), `utc_day` the UTC date of the instant it denotes
WellFormed(date) == [parses |-> TRUE, day |-> date, utc_day |-> date]
\* such as "2025-06-15T23:30:00-05:00", which is 2025-06-16T04:30:00Z
LateEvening(date) == [parses |-> TRUE, day |-> date, utc_day |-> date + 1]
Malformed == [parses |-> FALSE, day |-> 0, utc_day |-> 0]

\* models.rs:32-39: EventDateTime { date_time, date }: a timed start, an
\* all-day start, a start whose dateTime does not parse, a start with both
\* fields, a start with neither, and a timed start late in the evening of
\* a zone behind UTC
EventStarts(now) ==
    {[date_time |-> Some(WellFormed(now)), date |-> None],
     [date_time |-> Some(LateEvening(now)), date |-> None],
     [date_time |-> None, date |-> Some(WellFormed(now + 1))],
     [date_time |-> Some(Malformed), date |-> Some(WellFormed(now))],
     [date_time |-> Some(WellFormed(now + 1)), date |-> Some(WellFormed(now))],
     [date_time |-> None, date |-> None]}

\* extract_date_from_event taking the UTC date of a timed start
extract_date_from_event_UtcDay(event) ==
    IF event.start.date_time # None /\ event.start.date_time[1].parses
    THEN Some(event.start.date_time[1].utc_day)
    ELSE IF event.start.date # None /\ event.start.date[1].parses
         THEN Some(event.start.date[1].day)
         ELSE None

\* fetcher.rs:53-70: parse_from_rfc3339(dateTime) gives a DateTime<FixedOffset>
\* whose date_naive() is the date in the string's own offset; failing that,
\* the date field parsed as %Y-%m-%d
extract_date_from_event(event) ==
    IF event.start.date_time # None /\ event.start.date_time[1].parses
    THEN Some(event.start.date_time[1].day)
    ELSE IF event.start.date # None /\ event.start.date[1].parses
         THEN Some(event.start.date[1].day)
         ELSE None

\* fetcher.rs:34: all_events_by_date.entry(date).or_default().push(event)
push_event(index, date, event) ==
    IF date \in DOMAIN index
    THEN [index EXCEPT ![date] = Append(@, event)]
    ELSE [d \in DOMAIN index \cup {date} |->
             IF d = date THEN <<event>> ELSE index[d]]

\* fetcher.rs:32-36: the events of one calendar are grouped by date, in order
RECURSIVE group_events(_, _)
group_events(index, evs) ==
    IF evs = <<>>
    THEN index
    ELSE LET event == Head(evs)
             date == extract_date_from_event(event)
         IN  group_events(IF date = None THEN index
                          ELSE push_event(index, date[1], event),
                          Tail(evs))

\* the service: calendar i holds the events of `flat` that `owner` gives it
ServiceOf(n, flat, owner) ==
    [i \in 1..n |->
        [id |-> i,
         events |-> SelectSeq([j \in 1..Len(flat) |-> [id |-> j, start |-> flat[j]]],
                              LAMBDA e : owner[e.id] = i)]]

Services(now) ==
    UNION {UNION {{ServiceOf(n, flat, owner) :
                      flat \in [1..k -> EventStarts(now)],
                      owner \in {o \in [1..k -> 1..n] :
                                    \A a, b \in 1..k : a <= b => o[a] <= o[b]}} :
                  k \in 0..MaxServiceEvents} :
           n \in 0..MaxCalendars}

Outcome(callee, result) == [call |-> callee, result |-> result]

\* fetcher.rs:47-51: Utc.with_ymd_and_hms(y, m, d, 0, 0, 0): the first second
\* of the day in UTC
SecondsPerDay == 86400
date_to_utc(date) == date * SecondsPerDay

\* fetcher.rs:16-19: list_calendars(); its failure is returned with context
fetch_list_calendars ==
    /\ fpc = "start"
    /\ \E result \in {"ok", "err"} :
        /\ outcomes' = Append(outcomes, Outcome("list_calendars", result))
        /\ IF result = "ok"
           THEN /\ fetched' = [i \in 1..Len(service) |-> service[i].id]
                /\ time_min' = Some(date_to_utc(current_date_range.start))
                /\ time_max' = Some(date_to_utc(current_date_range.end))
                /\ cal_i' = 1
                /\ fpc' = "events"
                /\ UNCHANGED fetch_ret
           ELSE /\ fetch_ret' = Some(Err("Failed to fetch calendars"))
                /\ fpc' = "done"
                /\ UNCHANGED <<fetched, cal_i, time_min, time_max>>
    /\ UNCHANGED <<service, all_events_by_date>>
    /\ UNCHANGED <<appVars, loopVars, clientVars, trimVars, keyVars, dateVars, ownerVars, mainVars, storeVars, lifeVars>>

\* fetcher.rs:30-37: the Ok arm
list_events_ok(evs) ==
    /\ all_events_by_date' = group_events(all_events_by_date, evs)
    /\ cal_i' = cal_i + 1
    /\ UNCHANGED <<fpc, fetch_ret>>

\* an Err arm that returns the calendar's failure to the caller
list_events_err_Propagates ==
    /\ fetch_ret' = Some(Err("Failed to fetch events"))
    /\ fpc' = "done"
    /\ UNCHANGED <<all_events_by_date, cal_i>>

\* fetcher.rs:38-40: the Err arm drops the error and the loop goes on
list_events_err ==
    /\ cal_i' = cal_i + 1
    /\ UNCHANGED <<all_events_by_date, fpc, fetch_ret>>

\* fetcher.rs:28-42: one iteration of `for calendar in &calendars`
fetch_list_events ==
    /\ fpc = "events"
    /\ cal_i <= Len(fetched)
    /\ \E result \in {"ok", "err"} :
        /\ outcomes' = Append(outcomes, Outcome("list_events", result))
        /\ IF result = "ok"
           THEN list_events_ok(service[cal_i].events)
           ELSE list_events_err
    /\ UNCHANGED <<service, fetched>>
    /\ UNCHANGED <<appVars, loopVars, clientVars, trimVars, keyVars, dateVars, ownerVars, timeVars, mainVars, storeVars, lifeVars>>

\* fetcher.rs:44: Ok((calendars, all_events_by_date))
fetch_return ==
    /\ fpc = "events"
    /\ cal_i > Len(fetched)
    /\ fetch_ret' = Some(Ok([calendars |-> fetched, events |-> all_events_by_date]))
    /\ fpc' = "done"
    /\ UNCHANGED <<service, fetched, cal_i, all_events_by_date, outcomes>>
    /\ UNCHANGED <<appVars, loopVars, clientVars, trimVars, keyVars, dateVars, ownerVars, timeVars, mainVars, storeVars, lifeVars>>

InitFetch ==
    /\ \E now \in Todays :
        /\ AppState_new(now)
        /\ service \in Services(now)
    /\ fpc = "start"
    /\ fetched = <<>>
    /\ cal_i = 0
    /\ all_events_by_date = <<>>
    /\ outcomes = <<>>
    /\ fetch_ret = None
    /\ LoopOff
    /\ ClientOff
    /\ TrimOff
    /\ KeysOff
    /\ DatesOff
    /\ OwnerOff
    /\ TimeOff
    /\ MainOff
    /\ StoreOff
    /\ LifeOff

NextFetch ==
    \/ fetch_list_calendars
    \/ fetch_list_events
    \/ fetch_return

SpecFetch == InitFetch /\ [][NextFetch]_vars

\* the calls made so far: list_calendars succeeded; list_events' outcome for
\* the i-th calendar
CalendarsListed == outcomes # <<>> /\ outcomes[1].result = "ok"
EventsOutcome(i) == outcomes[i + 1].result

\* the events of the calendars whose list_events succeeded, in calendar order
RECURSIVE EventsOfSucceeded(_)
EventsOfSucceeded(i) ==
    IF i = 0
    THEN <<>>
    ELSE EventsOfSucceeded(i - 1)
             \o (IF EventsOutcome(i) = "ok" THEN service[i].events ELSE <<>>)

IsDatable(e) == extract_date_from_event(e) # None

\* C13: once list_calendars has succeeded, fetch_calendar_data returns
\* success whatever the per-calendar list_events outcomes were: list_events
\* was called for every calendar, the returned list holds every listed
\* calendar, and the index holds exactly the datable events of the calendars
\* whose fetch succeeded, each under its date and none under an empty day.
C13_FetchSucceedsDespiteCalendarFailures ==
    (fpc = "done" /\ CalendarsListed) =>
        /\ fetch_ret # None
        /\ fetch_ret[1].ok
        /\ Len(outcomes) = Len(service) + 1
        /\ fetch_ret[1].value.calendars = [i \in 1..Len(service) |-> service[i].id]
        /\ LET index == fetch_ret[1].value.events
               good == SelectSeq(EventsOfSucceeded(Len(service)), IsDatable)
           IN  /\ DOMAIN index = {extract_date_from_event(good[j])[1] : j \in 1..Len(good)}
               /\ \A d \in DOMAIN index :
                    index[d] = SelectSeq(good, LAMBDA e : extract_date_from_event(e) = Some(d))

\* two calendars were listed; the first one's fetch failed, the second one's
\* succeeded and its datable event is in the returned index
C13_Witness ==
    /\ fpc = "done"
    /\ Len(outcomes) = 3
    /\ EventsOutcome(1) = "err"
    /\ EventsOutcome(2) = "ok"
    /\ service[1].events # <<>>
    /\ IsDatable(service[1].events[1])
    /\ fetch_ret[1].ok
    /\ fetch_ret[1].value.events # <<>>

\* C14: when list_calendars returned N >= 1 calendars and every per-calendar
\* event fetch failed, what fetch_calendar_data returns (and the loader sends
\* on) differs from what it returns when all N calendars succeeded with zero
\* events, which is Ok((calendars, empty index)).
C14_AllFailedIsDistinguishable ==
    (/\ fpc = "done"
     /\ CalendarsListed
     /\ Len(fetched) >= 1
     /\ \A i \in 1..Len(fetched) : EventsOutcome(i) = "err")
        => fetch_ret # Some(Ok([calendars |-> fetched, events |-> <<>>]))

----------------------------------------------------------------------------
\* SpecKeys: handle_key_event (src/src/tui/input.rs:11-95) fed with every
\* sequence of keys, starting from the state after a fetch was folded. The
\* key and the AppState before it are recorded.

\* keys move the selected date at most MaxKeyDays days away from today
MaxKeyDays == 8

\* the indexes a fetch can deliver around today: 0..MaxEvents events on today
\* and on the next day
KeyCaches(now) ==
    {[date \in {d \in {now, now + 1} : n[d] > 0} |-> [i \in 1..n[date] |-> i]] :
        n \in [{now, now + 1} -> 0..MaxEvents]}

\* state.rs:19-31: the fields of AppState
AppStateNow ==
    [selected_date |-> selected_date, today |-> today, calendars |-> calendars,
     events |-> events, loading |-> loading, error |-> error,
     view_focus |-> view_focus, selected_event_index |-> selected_event_index,
     events_view_mode |-> events_view_mode,
     current_date_range |-> current_date_range, current_month |-> current_month]

\* app.rs:27-33 and 67-78: AppState::new, then a Success message folded
InitKeys ==
    /\ \E now \in Todays :
        /\ selected_date = now
        /\ today = now
        /\ events \in KeyCaches(now)
        /\ current_date_range = five_month_span(now)
        /\ current_month = <<year(now), month(now)>>
    /\ calendars = <<"primary">>
    /\ loading = FALSE
    /\ error = None
    /\ view_focus = "Calendar"
    /\ selected_event_index = None
    /\ events_view_mode = ListMode
    /\ key_in = ""
    /\ pre = None
    /\ LoopOff
    /\ ClientOff
    /\ TrimOff
    /\ FetchOff
    /\ DatesOff
    /\ OwnerOff
    /\ TimeOff
    /\ MainOff
    /\ StoreOff
    /\ LifeOff

InKeyBounds(date) ==
    /\ date >= today - MaxKeyDays
    /\ date <= today + MaxKeyDays

\* app.rs:120-127: one key event is read and routed; Quit ends the loop
RouteKey ==
    /\ last_action # "Quit"
    /\ \E key \in KeyCodes :
        /\ handle_key_event(key)
        /\ key_in' = key
    /\ pre' = Some(AppStateNow)
    /\ InKeyBounds(selected_date')
    /\ UNCHANGED <<app_pc, data_loader, receiver, fetch_task, sent, folded>>
    /\ UNCHANGED <<clientVars, trimVars, fetchVars, dateVars, ownerVars, timeVars, mainVars, storeVars, lifeVars>>

NextKeys == RouteKey

SpecKeys == InitKeys /\ [][NextKeys]_vars

\* the last key routed was one of `keys`; the AppState it found; nothing of
\* the AppState was changed by it
Routed(keys) == pre # None /\ key_in \in keys
Was == pre[1]
Untouched == AppStateNow = Was

\* C15: Esc returns Quit exactly when the focus is Calendar (whatever the view
\* mode, a Details view left open by a focus toggle included) or the focus is
\* Events with the list shown, and then changes nothing; with the focus on
\* Events and a Details view shown it returns None, sets the view mode to
\* List, and leaves selected_event_index, selected_date and the focus alone.
C15_EscQuitsOrLeavesDetails ==
    Routed({"Esc"}) =>
        /\ last_action = "Quit" <=>
              (Was.view_focus = "Calendar" \/ Was.events_view_mode = ListMode)
        /\ last_action = "Quit" => Untouched
        /\ (Was.view_focus = "Events" /\ Was.events_view_mode # ListMode) =>
              /\ last_action = "None"
              /\ AppStateNow = [Was EXCEPT !.events_view_mode = ListMode]

\* Esc quit from the Calendar focus while a Details view was still open
C15_Witness ==
    /\ Routed({"Esc"})
    /\ Was.view_focus = "Calendar"
    /\ Was.events_view_mode = Details(0)
    /\ last_action = "Quit"

\* C16: the global keys act the same whatever the focus and the view mode, and
\* are never handed to a focus-scoped handler: 'q' returns Quit and 'r'
\* returns Refresh, neither changing any field; 't' returns None and sets
\* selected_date to the today captured at construction.
C16_GlobalKeysIgnoreFocus ==
    /\ Routed({"q"}) => (last_action = "Quit" /\ Untouched)
    /\ Routed({"r"}) => (last_action = "Refresh" /\ Untouched)
    /\ Routed({"t"}) =>
          /\ last_action = "None"
          /\ today \in Todays
          /\ AppStateNow = [Was EXCEPT !.selected_date = today]

\* 't' was pressed in a Details view, away from today
C16_Witness ==
    /\ Routed({"t"})
    /\ Was.view_focus = "Events"
    /\ Was.events_view_mode = Details(0)
    /\ Was.selected_date # today
    /\ selected_date = today

\* the day offset of a directional key, and the keys that undo it
DayDelta(key) ==
    CASE key \in {"Left", "h"} -> -1
      [] key \in {"Right", "l"} -> 1
      [] key \in {"Up", "k"} -> -7
      [] key \in {"Down", "j"} -> 7

Opposite(key) ==
    CASE key \in {"Left", "h"} -> {"Right", "l"}
      [] key \in {"Right", "l"} -> {"Left", "h"}
      [] key \in {"Up", "k"} -> {"Down", "j"}
      [] key \in {"Down", "j"} -> {"Up", "k"}

DirectionKeys == {"Left", "Right", "Up", "Down", "h", "j", "k", "l"}

\* C17: with the focus on Calendar, Left/'h' moves selected_date by -1 day,
\* Right/'l' by +1, Up/'k' by -7 and Down/'j' by +7; each of them leaves
\* selected_event_index = None and the view mode List; and a directional key
\* followed by its opposite brings selected_date back.
C17_CalendarKeysMoveTheDate ==
    /\ []((Routed(DirectionKeys) /\ Was.view_focus = "Calendar") =>
            /\ last_action = "None"
            /\ AppStateNow = [Was EXCEPT
                                 !.selected_date = Was.selected_date + DayDelta(key_in),
                                 !.selected_event_index = None,
                                 !.events_view_mode = ListMode])
    /\ [][(/\ Routed(DirectionKeys)
           /\ Was.view_focus = "Calendar"
           /\ view_focus = "Calendar"
           /\ key_in' \in Opposite(key_in))
              => selected_date' = Was.selected_date]_vars

\* Up from the Calendar focus closed an open Details view and cleared the
\* selection while moving a week back
C17_Witness ==
    /\ Routed({"Up", "k"})
    /\ Was.view_focus = "Calendar"
    /\ Was.events_view_mode = Details(0)
    /\ Was.selected_event_index = Some(0)
    /\ selected_date = Was.selected_date - 7
    /\ selected_event_index = None

\* the number of cached events of the date selected before the key
CountWas ==
    IF Was.selected_date \in DOMAIN Was.events
    THEN Len(Was.events[Was.selected_date])
    ELSE 0

UpKeys == {"Up", "k"}
DownKeys == {"Down", "j"}

InEventsList == Was.view_focus = "Events" /\ Was.events_view_mode = ListMode

\* C18: with the focus on Events and the list shown, n being the number of
\* cached events of selected_date: when n = 0, Up and Down change nothing;
\* when n > 0, Down takes None to 0 and Some(i) to (i + 1) mod n, Up takes
\* None and Some(0) to n - 1 and Some(i) to i - 1. From None or an index below
\* n the selection therefore stays in 0..n-1, and n presses of the same key
\* come back to the same index (followed on runs for n <= 2).
C18_SelectionWrapsWithinTheList ==
    /\ []((/\ Routed(UpKeys \cup DownKeys)
           /\ InEventsList
           /\ (Was.selected_event_index = None \/ Was.selected_event_index[1] < CountWas))
            =>
            /\ last_action = "None"
            /\ AppStateNow =
                 [Was EXCEPT !.selected_event_index =
                     IF CountWas = 0 THEN @
                     ELSE IF key_in \in DownKeys
                          THEN (IF @ = None THEN Some(0) ELSE Some((@[1] + 1) % CountWas))
                          ELSE (IF @ = None \/ @ = Some(0)
                                THEN Some(CountWas - 1)
                                ELSE Some(@[1] - 1))]
            /\ CountWas > 0 => selected_event_index[1] \in 0..(CountWas - 1)
            /\ (CountWas = 1 /\ Was.selected_event_index # None) =>
                  selected_event_index = Was.selected_event_index)
    /\ [][(/\ Routed(UpKeys \cup DownKeys)
           /\ InEventsList
           /\ view_focus = "Events"
           /\ events_view_mode = ListMode
           /\ CountWas = 2
           /\ Was.selected_event_index \in {Some(0), Some(1)}
           /\ (key_in \in UpKeys <=> key_in' \in UpKeys)
           /\ key_in' \in UpKeys \cup DownKeys)
              => selected_event_index' = Was.selected_event_index]_vars

\* Up wrapped from the first event of a two-event day to the last one
C18_Witness ==
    /\ Routed(UpKeys)
    /\ InEventsList
    /\ CountWas = 2
    /\ Was.selected_event_index = Some(0)
    /\ selected_event_index = Some(1)

\* C19: with the focus on Events and the list shown, Enter returns None; with
\* selected_event_index = Some(i) the view mode becomes Details(i), with None
\* it stays List; selected_event_index, selected_date and the focus are
\* unchanged.
C19_EnterOpensTheSelectedEvent ==
    (Routed({"Enter"}) /\ InEventsList) =>
        /\ last_action = "None"
        /\ AppStateNow =
             [Was EXCEPT !.events_view_mode =
                 IF Was.selected_event_index = None
                 THEN ListMode
                 ELSE Details(Was.selected_event_index[1])]

\* Enter opened the second event of the day
C19_Witness ==
    /\ Routed({"Enter"})
    /\ InEventsList
    /\ Was.selected_event_index = Some(1)
    /\ events_view_mode = Details(1)

C21_TabTogglesFocusOnly ==
    /\ [](Routed({"Tab"}) =>
            /\ last_action = "None"
            /\ view_focus # Was.view_focus
            /\ view_focus \in {"Calendar", "Events"}
            /\ AppStateNow = [Was EXCEPT !.view_focus = view_focus])
    /\ [][(Routed({"Tab"}) /\ key_in' = "Tab") => AppStateNow' = Was]_vars

\* Tab moved the focus from an open Details view to the calendar
C21_Witness ==
    /\ Routed({"Tab"})
    /\ Was.view_focus = "Events"
    /\ Was.events_view_mode = Details(1)
    /\ view_focus = "Calendar"
    /\ events_view_mode = Details(1)
    /\ selected_event_index = Some(1)

----------------------------------------------------------------------------
\* More claims about the running application (Spec)

\* C22: the today field keeps the value it was given at construction in every
\* reachable state: no routed key, no navigation method and no loader message
\* folded by the render loop changes it.
C22_TodayNeverChanges ==
    /\ [](today \in Todays)
    /\ [][today' = today]_vars

\* a fetch was folded and keys moved the date and the selection away from
\* their initial values; today is still the day of construction
C22_Witness ==
    /\ Len(folded) = 2
    /\ folded[2].type = "Success"
    /\ selected_date # today
    /\ view_focus = "Events"
    /\ selected_event_index # None
    /\ today \in Todays

----------------------------------------------------------------------------
\* SpecDates: DateRange::five_month_span and needs_date_range_refresh
\* (src/src/tui/state.rs:139-152, 192-216) over many start-up days and
\* selected dates.

\* start-up days are taken from MaxCenterMonths consecutive months, the first
\* being November 2023; the selected date goes at most MaxProbeDays days away
MaxCenterMonths == 16
MaxProbeDays == 95

CenterMonth(k) ==
    LET index == 2023 * 12 + 10 + k
    IN  <<index \div 12, (index % 12) + 1>>

\* Local::now().date_naive() at start-up: the 1st, the 15th and the 28th
Centers ==
    UNION {{from_ymd_opt(CenterMonth(k)[1], CenterMonth(k)[2], d) : d \in {1, 15, 28}} :
           k \in 0..(MaxCenterMonths - 1)}

InitDates ==
    /\ \E now \in Centers : AppState_new(now)
    /\ dpc = "new"
    /\ span = None
    /\ needs = None
    /\ LoopOff
    /\ ClientOff
    /\ TrimOff
    /\ KeysOff
    /\ FetchOff
    /\ OwnerOff
    /\ TimeOff
    /\ MainOff
    /\ StoreOff
    /\ LifeOff

\* app.rs:39: let date_range = DateRange::five_month_span(Local::now().date_naive())
DateRangeOfToday ==
    /\ dpc = "new"
    /\ span' = Some(five_month_span(today))
    /\ dpc' = "window"
    /\ UNCHANGED needs
    /\ UNCHANGED <<appVars, loopVars, clientVars, trimVars, keyVars, fetchVars, ownerVars, timeVars, mainVars, storeVars, lifeVars>>

\* state.rs:67-74: the selected date is moved
MoveDate ==
    /\ dpc = "window"
    /\ \E days \in (-MaxProbeDays)..MaxProbeDays : move_selected_date(days)
    /\ dpc' = "moved"
    /\ UNCHANGED <<span, needs>>
    /\ UNCHANGED <<today, calendars, events, loading, error, view_focus,
                   selected_event_index, events_view_mode, current_date_range,
                   current_month>>
    /\ UNCHANGED <<loopVars, clientVars, trimVars, keyVars, fetchVars, ownerVars, timeVars, mainVars, storeVars, lifeVars>>

\* state.rs:139-152: needs_date_range_refresh is asked
AskRefresh ==
    /\ dpc = "moved"
    /\ needs' = Some(needs_date_range_refresh)
    /\ dpc' = "asked"
    /\ UNCHANGED span
    /\ UNCHANGED <<appVars, loopVars, clientVars, trimVars, keyVars, fetchVars, ownerVars, timeVars, mainVars, storeVars, lifeVars>>

NextDates ==
    \/ DateRangeOfToday
    \/ MoveDate
    \/ AskRefresh

SpecDates == InitDates /\ [][NextDates]_vars

SameMonth(a, b) == year(a) = year(b) /\ month(a) = month(b)

\* C23: for every selected date and every loaded fetch window,
\* needs_date_range_refresh is true exactly when the (year, month) of
\* selected_date is the (year, month) of the window's start or of its end; it
\* is false in the three middle months of the five-month window and for
\* dates outside the window.
C23_RefreshNeededInEdgeMonthsOnly ==
    dpc = "asked" =>
        /\ needs[1] <=> MonthIndex(selected_date) \in
                            {MonthIndex(current_date_range.start),
                             MonthIndex(current_date_range.end)}
        /\ needs[1] <=> (MonthIndex(selected_date) - MonthIndex(today)) \in {-2, 2}
        /\ (MonthIndex(selected_date) - MonthIndex(today)) \in -1..1 => ~needs[1]
        /\ (\/ selected_date < current_date_range.start
            \/ selected_date > current_date_range.end) => ~needs[1]

\* the selected date is in the first month of the window, which lies in the
\* year before today's, and a refresh is needed
C23_Witness ==
    /\ dpc = "asked"
    /\ needs = Some(TRUE)
    /\ selected_date < today
    /\ year(selected_date) = year(today) - 1
    /\ SameMonth(selected_date, current_date_range.start)

IsLeapYear(y) == (y % 4 = 0 /\ y % 100 # 0) \/ y % 400 = 0

DaysInMonth(y, m) ==
    IF m \in {4, 6, 9, 11} THEN 30
    ELSE IF m = 2 THEN (IF IsLeapYear(y) THEN 29 ELSE 28)
    ELSE 31

MonthOfIndex(index) == <<index \div 12, (index % 12) + 1>>

\* C24: for every center date five_month_span returns start = the first day
\* of the month two months before the center's month and end = the last day
\* of the month two months after it, the year rolling over (January and
\* February centers start in the previous year, November and December centers
\* end in the next one) and February having its leap-year length; the window
\* contains the center and spans exactly five consecutive calendar months.
C24_FiveMonthWindowAroundCenter ==
    dpc # "new" =>
        LET window == span[1]
            first == MonthOfIndex(MonthIndex(today) - 2)
            last == MonthOfIndex(MonthIndex(today) + 2)
        IN  /\ CivilFromDays(window.start) = <<first[1], first[2], 1>>
            /\ CivilFromDays(window.end) =
                   <<last[1], last[2], DaysInMonth(last[1], last[2])>>
            /\ month(today) <= 2 => year(window.start) = year(today) - 1
            /\ month(today) >= 11 => year(window.end) = year(today) + 1
            /\ window.start <= today /\ today <= window.end
            /\ MonthIndex(window.end) - MonthIndex(window.start) = 4
            /\ day(window.end + 1) = 1

\* a December center whose window ends on 29 February of a leap year
C24_Witness ==
    /\ dpc = "window"
    /\ CivilFromDays(today) = <<2023, 12, 15>>
    /\ CivilFromDays(span[1].start) = <<2023, 10, 1>>
    /\ CivilFromDays(span[1].end) = <<2024, 2, 29>>

----------------------------------------------------------------------------
\* Refresh and Quit in the render loop (Spec)

\* C25: when the router returns Refresh and no load is in flight, the render
\* loop re-invokes the background loader: a new loader exists after that tick,
\* its task is running and its Loading message is queued.
C25_RefreshReloads ==
    [][(PollKey("r") /\ data_loader = None /\ fetch_task # "running")
          => (/\ data_loader' # None
              /\ fetch_task' = "running"
              /\ receiver' = <<LoadingMsg>>)]_vars

\* one more Esc ends the loop
EscQuits == ENABLED (PollKey("Esc") /\ app_pc' = "quit")

\* C26: the render loop ends at the tick in which the router returns Quit and
\* on no other action: None and Refresh never end it, nor does a loader
\* message or the fetch task. From every reachable state of the running loop
\* a single 'q' ends it, and at most two consecutive Esc presses end it.
C26_LoopEndsOnQuitOnly ==
    /\ [](app_pc = "quit" <=> last_action = "Quit")
    /\ [][(app_pc' # app_pc /\ app_pc # "start")
             => (app_pc = "running" /\ app_pc' = "quit" /\ last_action' = "Quit")]_vars
    /\ [][(DrainLoader \/ FetchTask) => app_pc' = app_pc]_vars
    /\ [](app_pc = "running" =>
            /\ ENABLED (PollKey("q") /\ app_pc' = "quit")
            /\ ENABLED PollKey("Esc"))
    /\ [][(PollKey("Esc") /\ app_pc' = "running") => EscQuits']_vars

\* Esc closed a Details view and the loop is still running
C26_Witness ==
    /\ app_pc = "running"
    /\ last_action = "None"
    /\ view_focus = "Events"
    /\ events_view_mode = ListMode
    /\ selected_event_index # None
    /\ folded # <<>>
    /\ EscQuits

----------------------------------------------------------------------------
\* Who holds the API client (Spec)

\* the clients held by messages the render lane can still receive
ClientsInChannel ==
    IF data_loader = None
    THEN 0
    ELSE Cardinality({i \in 1..Len(receiver) : "client" \in DOMAIN receiver[i]})

ClientHolders ==
    (IF render_client THEN 1 ELSE 0) + (IF task_client THEN 1 ELSE 0) + ClientsInChannel

TerminalFolded == folded # <<>> /\ IsTerminal(folded[Len(folded)])

\* C27: at every moment the API client has one owner. From DataLoader::new
\* until the terminal message is consumed it belongs to the fetch task (or
\* travels in that message), and the render lane makes no use of it; both
\* terminal messages carry the client back to the render lane; the fetch task
\* does not use it after sending.
C27_ClientHasOneOwner ==
    /\ ClientHolders <= 1
    /\ ClientHolders = 0 => (TerminalFolded \/ app_pc = "quit")
    /\ app_pc = "start" => render_client
    /\ fetch_task = "running" =>
          (task_client /\ ~render_client /\ ClientsInChannel = 0 /\ client_log = <<>>)
    /\ fetch_task = "done" =>
          /\ ~task_client
          /\ client_log[1] = [lane |-> "task", op |-> "fetch_calendar_data"]
          /\ \A i \in 2..Len(client_log) : client_log[i].lane # "task"
    /\ \A i \in 1..Len(client_log) :
          client_log[i].lane = "render" =>
              (i = Len(client_log) /\ client_log[i].op = "drop" /\ TerminalFolded)
    /\ \A i \in 1..Len(sent) : IsTerminal(sent[i]) => "client" \in DOMAIN sent[i]
    /\ TerminalFolded => "client" \in DOMAIN folded[Len(folded)]

\* the task has sent its terminal message, which holds the client, while the
\* render lane was routing keys and has not received it yet
C27_Witness ==
    /\ app_pc = "running"
    /\ fetch_task = "done"
    /\ ClientsInChannel = 1
    /\ ~TerminalFolded
    /\ selected_date # today

\* ---------------------------------------------------------------------------
\* C28: for every fetch window, the time range the Data Fetcher requests
\* from each calendar covers every instant of every day from window.start
\* through window.end inclusive: it begins no later than the first second of
\* window.start and ends no earlier than the last second of window.end, so
\* that an event starting at any time on the last day is asked for.
\* (fetcher.rs:22-23 sends time_max = date_to_utc(window.end), the FIRST
\* second of the last day, so the statement is violated.)
FirstInstant(date) == date * SecondsPerDay
LastInstant(date) == (date + 1) * SecondsPerDay - 1

C28_RequestCoversWholeWindow ==
    (time_min # None /\ time_max # None) =>
        /\ time_min[1] <= FirstInstant(current_date_range.start)
        /\ time_max[1] >= LastInstant(current_date_range.end)

\* ---------------------------------------------------------------------------
\* C29: in the index returned by fetch_calendar_data, every fetched event
\* whose start can be parsed appears exactly once, under the calendar day
\* derived from its start: a timed start under the day its dateTime is
\* written in, an all-day start under its literal date, and a start whose
\* dateTime does not parse under its date field when that parses. Events with
\* no parseable start appear nowhere and the fetch still succeeds. Nothing
\* else is in the index, and within one day the events keep fetch order
\* (calendar order, then the order within the calendar).
StartDay(e) ==
    LET timed == e.start.date_time
        allday == e.start.date
    IN  CASE timed # None /\ timed[1].parses -> Some(timed[1].day)
          [] allday # None /\ allday[1].parses -> Some(allday[1].day)
          [] OTHER -> None

PlacesIn(index, e) ==
    {p \in UNION {{<<d, j>> : j \in 1..Len(index[d])} : d \in DOMAIN index} :
        index[p[1]][p[2]] = e}

C29_EveryDatableEventIndexedOnce ==
    (fpc = "done" /\ CalendarsListed) =>
        /\ fetch_ret # None /\ fetch_ret[1].ok
        /\ LET index == fetch_ret[1].value.events
               all == EventsOfSucceeded(Len(service))
               Pos(e) == CHOOSE k \in 1..Len(all) : all[k] = e
           IN  /\ \A k \in 1..Len(all) :
                    IF StartDay(all[k]) = None
                    THEN PlacesIn(index, all[k]) = {}
                    ELSE /\ Cardinality(PlacesIn(index, all[k])) = 1
                         /\ \A p \in PlacesIn(index, all[k]) : p[1] = StartDay(all[k])[1]
               /\ \A d \in DOMAIN index :
                    /\ index[d] # <<>>
                    /\ \A j \in 1..Len(index[d]) : \E k \in 1..Len(all) : all[k] = index[d][j]
                    /\ \A a, b \in 1..Len(index[d]) :
                         a < b => Pos(index[d][a]) < Pos(index[d][b])

\* two calendars were fetched; the first holds a late-evening timed event
\* whose UTC date is the next day, the second an event with an unparseable
\* dateTime and a date field; both are indexed under the same day, in
\* calendar order
C29_Witness ==
    /\ fpc = "done"
    /\ Len(service) = 2
    /\ Len(outcomes) = 3
    /\ EventsOutcome(1) = "ok" /\ EventsOutcome(2) = "ok"
    /\ Len(service[1].events) = 1 /\ Len(service[2].events) = 1
    /\ service[1].events[1].start.date_time = Some(LateEvening(today))
    /\ service[2].events[1].start.date_time = Some(Malformed)
    /\ fetch_ret[1].ok
    /\ fetch_ret[1].value.events =
           (today :> <<service[1].events[1], service[2].events[1]>>)

----------------------------------------------------------------------------
\* SpecMain: one run of the process (src/src/main.rs:10-57) for every command
\* line and every state of the credential store, with every outcome of the
\* calls it makes.

\* the token pairs a tokens file or an OAuth flow can hold
MaxStoredTokens == 3
TokenValues == 1..MaxStoredTokens

\* what the tokens file holds: a TokenPair, or bytes serde_json rejects
Saved(t) == [valid |-> TRUE, tokens |-> t]
Corrupt == [valid |-> FALSE, tokens |-> 0]

\* tokens.rs:20-26: get_storage_path fails when there is no config directory;
\* the file, if any, lives in it
Stores ==
    {[config_dir |-> FALSE, file |-> None]}
        \cup {[config_dir |-> TRUE, file |-> f] :
                 f \in {None, Some(Corrupt)} \cup {Some(Saved(t)) : t \in TokenValues}}

\* tokens.rs:28-33
Tokens_exists(st) == st.config_dir /\ st.file # None

\* tokens.rs:53-63: read_to_string, then serde_json::from_str
Tokens_load(st) ==
    IF st.config_dir /\ st.file # None /\ st.file[1].valid
    THEN Ok(st.file[1].tokens)
    ELSE Err("load")

\* tokens.rs:35-51: create_dir_all and fs::write may fail
Tokens_save(st, t, fs_ok) ==
    IF st.config_dir /\ fs_ok
    THEN [result |-> Ok(<<>>), store |-> [st EXCEPT !.file = Some(Saved(t))]]
    ELSE [result |-> Err("save"), store |-> st]

\* Tokens_delete removing the file without asking whether it exists, so
\* that remove_file fails on a missing file
Tokens_delete_NoExistCheck(st, fs_ok) ==
    IF ~st.config_dir \/ st.file = None \/ ~fs_ok
    THEN [result |-> Err("delete"), store |-> st]
    ELSE [result |-> Ok(<<>>), store |-> [st EXCEPT !.file = None]]

\* tokens.rs:65-74: the file is removed only if it exists; remove_file may fail
Tokens_delete(st, fs_ok) ==
    IF ~st.config_dir
    THEN [result |-> Err("delete"), store |-> st]
    ELSE IF st.file = None
         THEN [result |-> Ok(<<>>), store |-> st]
         ELSE IF fs_ok
              THEN [result |-> Ok(<<>>), store |-> [st EXCEPT !.file = None]]
              ELSE [result |-> Err("delete"), store |-> st]

\* cli.rs:6-19: an optional `login` subcommand and a --logout flag
Clis == [logout : BOOLEAN, login : BOOLEAN]

OkOrErr(ok) == IF ok THEN "ok" ELSE "err"

\* std::process::exit(code), or the return from main (code 0)
exit(code) ==
    /\ exit_code' = Some(code)
    /\ mpc' = "exited"

InitMain ==
    /\ mpc = "parse"
    /\ args = None
    /\ store \in Stores
    /\ main_tokens = None
    /\ steps = <<>>
    /\ exit_code = None
    /\ AppState_new(CHOOSE now \in Todays : TRUE)
    /\ LoopOff
    /\ ClientOff
    /\ TrimOff
    /\ KeysOff
    /\ FetchOff
    /\ DatesOff
    /\ OwnerOff
    /\ TimeOff
    /\ StoreOff
    /\ LifeOff

\* main.rs:12-17: the command line is parsed; --logout is looked at first
main_parse_args ==
    /\ mpc = "parse"
    /\ \E cli \in Clis :
        /\ args' = Some(cli)
        /\ mpc' = IF cli.logout THEN "logout" ELSE "authenticate"
    /\ UNCHANGED <<store, main_tokens, steps, exit_code>>
    /\ UNCHANGED <<appVars, loopVars, clientVars, trimVars, keyVars, fetchVars, dateVars, ownerVars, timeVars, storeVars, lifeVars>>

\* main.rs:14-17 and 52-57: Tokens::delete(), its outcome printed, return
handle_logout ==
    /\ mpc = "logout"
    /\ \E fs_ok \in BOOLEAN :
        LET deleted == Tokens_delete(store, fs_ok)
        IN  /\ store' = deleted.store
            /\ steps' = Append(steps, Outcome("delete", OkOrErr(deleted.result.ok)))
    /\ exit(0)
    /\ UNCHANGED <<args, main_tokens>>
    /\ UNCHANGED <<appVars, loopVars, clientVars, trimVars, keyVars, fetchVars, dateVars, ownerVars, timeVars, storeVars, lifeVars>>

\* auth/mod.rs:13: if Tokens::exists()
authenticate_exists ==
    /\ mpc = "authenticate"
    /\ steps' = Append(steps, Outcome("exists", IF Tokens_exists(store) THEN "true" ELSE "false"))
    /\ mpc' = IF Tokens_exists(store) THEN "load" ELSE "oauth"
    /\ UNCHANGED <<args, store, main_tokens, exit_code>>
    /\ UNCHANGED <<appVars, loopVars, clientVars, trimVars, keyVars, fetchVars, dateVars, ownerVars, timeVars, storeVars, lifeVars>>

\* auth/mod.rs:15 and main.rs:20-26: Tokens::load(); an error ends the process
authenticate_load ==
    /\ mpc = "load"
    /\ LET loaded == Tokens_load(store)
       IN  /\ steps' = Append(steps, Outcome("load", OkOrErr(loaded.ok)))
           /\ IF loaded.ok
              THEN /\ main_tokens' = Some(loaded.value)
                   /\ mpc' = "authenticated"
                   /\ UNCHANGED exit_code
              ELSE /\ exit(1)
                   /\ UNCHANGED main_tokens
    /\ UNCHANGED <<args, store>>
    /\ UNCHANGED <<appVars, loopVars, clientVars, trimVars, keyVars, fetchVars, dateVars, ownerVars, timeVars, storeVars, lifeVars>>

\* auth/mod.rs:18: OAuthClient::new()? (client id, secret, a free port)
authenticate_oauth_new ==
    /\ mpc = "oauth"
    /\ \E ok \in BOOLEAN :
        /\ steps' = Append(steps, Outcome("OAuthClient::new", OkOrErr(ok)))
        /\ IF ok
           THEN /\ mpc' = "flow"
                /\ UNCHANGED exit_code
           ELSE exit(1)
    /\ UNCHANGED <<args, store, main_tokens>>
    /\ UNCHANGED <<appVars, loopVars, clientVars, trimVars, keyVars, fetchVars, dateVars, ownerVars, timeVars, storeVars, lifeVars>>

\* auth/mod.rs:19: oauth_client.run_flow().await?: the browser consent and the
\* callback yield a TokenPair, or fail
authenticate_run_flow ==
    /\ mpc = "flow"
    /\ \/ \E t \in TokenValues :
            /\ steps' = Append(steps, Outcome("run_flow", "ok"))
            /\ main_tokens' = Some(t)
            /\ mpc' = "save"
            /\ UNCHANGED exit_code
       \/ /\ steps' = Append(steps, Outcome("run_flow", "err"))
          /\ exit(1)
          /\ UNCHANGED main_tokens
    /\ UNCHANGED <<args, store>>
    /\ UNCHANGED <<appVars, loopVars, clientVars, trimVars, keyVars, fetchVars, dateVars, ownerVars, timeVars, storeVars, lifeVars>>

\* auth/mod.rs:20-22: tokens.save()?; Ok(tokens)
authenticate_save ==
    /\ mpc = "save"
    /\ \E fs_ok \in BOOLEAN :
        LET saved == Tokens_save(store, main_tokens[1], fs_ok)
        IN  /\ store' = saved.store
            /\ steps' = Append(steps, Outcome("save", OkOrErr(saved.result.ok)))
            /\ IF saved.result.ok
               THEN /\ mpc' = "authenticated"
                    /\ UNCHANGED exit_code
               ELSE exit(1)
    /\ UNCHANGED <<args, main_tokens>>
    /\ UNCHANGED <<appVars, loopVars, clientVars, trimVars, keyVars, fetchVars, dateVars, ownerVars, timeVars, storeVars, lifeVars>>

\* main_authenticated going on to the client and the TUI after `login` too
main_authenticated_IgnoresLogin ==
    /\ mpc = "authenticated"
    /\ \E ok \in BOOLEAN :
        /\ steps' = Append(steps, Outcome("CalendarClient::new", OkOrErr(ok)))
        /\ IF ok
           THEN /\ mpc' = "tui"
                /\ UNCHANGED exit_code
           ELSE exit(1)
    /\ UNCHANGED <<args, store, main_tokens>>
    /\ UNCHANGED <<appVars, loopVars, clientVars, trimVars, keyVars, fetchVars, dateVars, ownerVars, timeVars, storeVars, lifeVars>>

\* main.rs:28-50: after authenticate: `login` prints and returns; otherwise
\* CalendarClient::new(tokens), whose error ends the process
main_authenticated ==
    /\ mpc = "authenticated"
    /\ IF args[1].login
       THEN /\ exit(0)
            /\ UNCHANGED steps
       ELSE \E ok \in BOOLEAN :
               /\ steps' = Append(steps, Outcome("CalendarClient::new", OkOrErr(ok)))
               /\ IF ok
                  THEN /\ mpc' = "tui"
                       /\ UNCHANGED exit_code
                  ELSE exit(1)
    /\ UNCHANGED <<args, store, main_tokens>>
    /\ UNCHANGED <<appVars, loopVars, clientVars, trimVars, keyVars, fetchVars, dateVars, ownerVars, timeVars, storeVars, lifeVars>>

\* main.rs:40-45: tui::run_tui(client): the render loop runs until it returns
main_run_tui ==
    /\ mpc = "tui"
    /\ \E ok \in BOOLEAN :
        /\ steps' = Append(steps, Outcome("run_tui", OkOrErr(ok)))
        /\ exit(IF ok THEN 0 ELSE 1)
    /\ UNCHANGED <<args, store, main_tokens>>
    /\ UNCHANGED <<appVars, loopVars, clientVars, trimVars, keyVars, fetchVars, dateVars, ownerVars, timeVars, storeVars, lifeVars>>

NextMain ==
    \/ main_parse_args
    \/ handle_logout
    \/ authenticate_exists
    \/ authenticate_load
    \/ authenticate_oauth_new
    \/ authenticate_run_flow
    \/ authenticate_save
    \/ main_authenticated
    \/ main_run_tui

SpecMain == InitMain /\ [][NextMain]_vars

Calls == [i \in 1..Len(steps) |-> steps[i].call]
Called(callee) == \E i \in 1..Len(steps) : steps[i].call = callee
Succeeded(callee) == \E i \in 1..Len(steps) : steps[i] = Outcome(callee, "ok")
Exited == mpc = "exited"
AuthOk == Succeeded("load") \/ Succeeded("save")

\* ---------------------------------------------------------------------------
\* C30, as stated: when the process has exited, (1) with --logout, also with
\* `login` given too, the only call made was the deletion of the stored
\* credentials (which are gone if it succeeded): no authentication, no render
\* loop; (2) with the login subcommand the OAuth bootstrap was run and the
\* render loop was never started; (3) with no arguments the process
\* authenticated and, that and the client construction having succeeded,
\* started the render loop, and never started it otherwise.
\* (Violated in (2): when credentials are stored, authenticate only loads
\* them and the bootstrap is never started.)
C30_CliDispatch ==
    Exited =>
        /\ args[1].logout =>
              /\ Calls = <<"delete">>
              /\ Succeeded("delete") => ~Tokens_exists(store)
        /\ (args[1].login /\ ~args[1].logout) =>
              /\ Called("OAuthClient::new")
              /\ ~Called("run_tui")
        /\ (~args[1].login /\ ~args[1].logout) =>
              /\ Called("exists")
              /\ Called("run_tui") <=> (AuthOk /\ Succeeded("CalendarClient::new"))

\* what auth/mod.rs:12-24 does, as seen in the calls made so far: it asks the
\* store whether credentials exist; if so it loads them and starts no OAuth
\* bootstrap, if not it runs the bootstrap and saves what it yields
Authenticates ==
    /\ steps # <<>> => steps[1].call = "exists"
    /\ mpc = "load" => Tokens_exists(store)
    /\ mpc \in {"oauth", "flow", "save"} => ~Tokens_exists(store)
    /\ (steps # <<>> /\ steps[1].result = "true") =>
          /\ ~Called("OAuthClient::new") /\ ~Called("run_flow") /\ ~Called("save")
          /\ Len(steps) >= 2 => steps[2].call = "load"
    /\ (steps # <<>> /\ steps[1].result = "false") =>
          /\ ~Called("load")
          /\ Len(steps) >= 2 => steps[2].call = "OAuthClient::new"
          /\ Len(steps) >= 3 => steps[3].call = "run_flow"
          /\ Len(steps) >= 4 => steps[4].call = "save"
    /\ AuthOk => (main_tokens # None /\ store.file = Some(Saved(main_tokens[1])))
    /\ Exited => Len(steps) >= 2

\* C30, amended: (1) with --logout, also with `login` given too, the only
\* call the process makes is the deletion of the stored credentials (gone if
\* it succeeded) and it exits with no authentication and no render loop;
\* (2) with the login subcommand it authenticates, loading the stored
\* credentials when they exist and running the OAuth bootstrap only when
\* none exist, and exits (with 0 exactly when that succeeded) without ever
\* building the client or starting the render loop; (3) with no arguments it
\* authenticates the same way and starts the render loop exactly when that
\* and the client construction succeeded.
C30_CliDispatchLoadsStoredCredentials ==
    (mpc # "parse") =>
        /\ args[1].logout =>
              /\ Calls \in {<<>>, <<"delete">>}
              /\ Exited => Calls = <<"delete">>
              /\ Succeeded("delete") => ~Tokens_exists(store)
        /\ (args[1].login /\ ~args[1].logout) =>
              /\ Authenticates
              /\ ~Called("CalendarClient::new")
              /\ ~Called("run_tui")
              /\ Exited => (exit_code = Some(0) <=> AuthOk)
        /\ (~args[1].login /\ ~args[1].logout) =>
              /\ Authenticates
              /\ Called("CalendarClient::new") => AuthOk
              /\ Called("run_tui") => (AuthOk /\ Succeeded("CalendarClient::new"))
              /\ Exited => (Called("run_tui") <=> (AuthOk /\ Succeeded("CalendarClient::new")))

\* `login` was given while credentials were stored: they were loaded, the
\* bootstrap was not started, and the process exited with 0
C30_Witness ==
    /\ Exited
    /\ args = Some([logout |-> FALSE, login |-> TRUE])
    /\ Calls = <<"exists", "load">>
    /\ Succeeded("load")
    /\ store.file = Some(Saved(1))
    /\ exit_code = Some(0)

----------------------------------------------------------------------------
\* SpecStore: every sequence of at most MaxStoreOps operations
\* (src/src/auth/tokens.rs:28-74) on every credential store.

MaxStoreOps == 4

StoreOp(op, t, fs_ok, result) ==
    [op |-> op, tokens |-> t, fs_ok |-> fs_ok, result |-> result]

InitStore ==
    /\ store \in Stores
    /\ store_init = store
    /\ store_log = <<>>
    /\ mpc = "off"
    /\ args = None
    /\ main_tokens = None
    /\ steps = <<>>
    /\ exit_code = None
    /\ AppState_new(CHOOSE now \in Todays : TRUE)
    /\ LoopOff
    /\ ClientOff
    /\ TrimOff
    /\ KeysOff
    /\ FetchOff
    /\ DatesOff
    /\ OwnerOff
    /\ TimeOff
    /\ LifeOff

\* tokens.rs:28-33
store_exists ==
    /\ Len(store_log) < MaxStoreOps
    /\ store_log' = Append(store_log, StoreOp("exists", 0, TRUE, Tokens_exists(store)))
    /\ UNCHANGED <<store, store_init>>
    /\ UNCHANGED <<mpc, args, main_tokens, steps, exit_code>>
    /\ UNCHANGED <<appVars, loopVars, clientVars, trimVars, keyVars, fetchVars, dateVars, ownerVars, timeVars, lifeVars>>

\* tokens.rs:53-63
store_load ==
    /\ Len(store_log) < MaxStoreOps
    /\ store_log' = Append(store_log, StoreOp("load", 0, TRUE, Tokens_load(store)))
    /\ UNCHANGED <<store, store_init>>
    /\ UNCHANGED <<mpc, args, main_tokens, steps, exit_code>>
    /\ UNCHANGED <<appVars, loopVars, clientVars, trimVars, keyVars, fetchVars, dateVars, ownerVars, timeVars, lifeVars>>

\* tokens.rs:35-51
store_save ==
    /\ Len(store_log) < MaxStoreOps
    /\ \E t \in TokenValues, fs_ok \in BOOLEAN :
        LET saved == Tokens_save(store, t, fs_ok)
        IN  /\ store' = saved.store
            /\ store_log' = Append(store_log, StoreOp("save", t, fs_ok, saved.result))
    /\ UNCHANGED store_init
    /\ UNCHANGED <<mpc, args, main_tokens, steps, exit_code>>
    /\ UNCHANGED <<appVars, loopVars, clientVars, trimVars, keyVars, fetchVars, dateVars, ownerVars, timeVars, lifeVars>>

\* tokens.rs:65-74
store_delete ==
    /\ Len(store_log) < MaxStoreOps
    /\ \E fs_ok \in BOOLEAN :
        LET deleted == Tokens_delete(store, fs_ok)
        IN  /\ store' = deleted.store
            /\ store_log' = Append(store_log, StoreOp("delete", 0, fs_ok, deleted.result))
    /\ UNCHANGED store_init
    /\ UNCHANGED <<mpc, args, main_tokens, steps, exit_code>>
    /\ UNCHANGED <<appVars, loopVars, clientVars, trimVars, keyVars, fetchVars, dateVars, ownerVars, timeVars, lifeVars>>

NextStore ==
    \/ store_exists
    \/ store_load
    \/ store_save
    \/ store_delete

SpecStore == InitStore /\ [][NextStore]_vars

\* the single slot the operations are meant to implement: what it holds after
\* the first i operations, when only a save or a delete that reported success
\* changes it
RECURSIVE SlotAfter(_)
SlotAfter(i) ==
    IF i = 0
    THEN store_init.file
    ELSE LET e == store_log[i]
         IN  CASE e.op = "save" /\ e.result.ok -> Some(Saved(e.tokens))
               [] e.op = "delete" /\ e.result.ok -> None
               [] OTHER -> SlotAfter(i - 1)

\* the config directory exists and the file system carried out the operation
FsWorked(e) == store_init.config_dir /\ e.fs_ok

\* ---------------------------------------------------------------------------
\* C31: over any sequence of save/load/delete/exists the credential store
\* behaves as a single slot: a load returns the TokenPair of the most recent
\* save when no delete followed it (in particular load right after save(t)
\* returns t); after a delete, exists is false and load fails; a delete that
\* the file system does not refuse succeeds whether or not credentials
\* exist, so a second delete succeeds too and leaves the store as the first
\* one left it. (A save or delete reports an error only when the file system
\* refuses it, and then the slot keeps its content.)
C31_StoreIsSingleSlot ==
    /\ store.file = SlotAfter(Len(store_log))
    /\ \A i \in 1..Len(store_log) :
        LET e == store_log[i]
            slot == SlotAfter(i - 1)
        IN  /\ e.op = "exists" => e.result = (slot # None)
            /\ e.op = "load" =>
                  IF slot # None /\ slot[1].valid
                  THEN e.result = Ok(slot[1].tokens)
                  ELSE ~e.result.ok
            /\ (e.op = "save" /\ FsWorked(e)) => e.result.ok
            /\ (e.op = "delete" /\ FsWorked(e)) => e.result.ok
            /\ (e.op \in {"save", "delete"} /\ ~e.result.ok) => ~FsWorked(e)
            /\ (i > 1 /\ e.op = "load" /\ store_log[i - 1].op = "save"
                      /\ store_log[i - 1].result.ok) =>
                  e.result = Ok(store_log[i - 1].tokens)
            /\ (i > 1 /\ store_log[i - 1].op = "delete" /\ store_log[i - 1].result.ok) =>
                  /\ e.op = "exists" => e.result = FALSE
                  /\ e.op = "load" => ~e.result.ok
                  /\ (e.op = "delete" /\ FsWorked(e)) =>
                        (e.result.ok /\ SlotAfter(i) = SlotAfter(i - 1))

\* a store holding one TokenPair; another was saved and loaded back, then
\* the credentials were deleted twice
C31_Witness ==
    /\ Len(store_log) = 4
    /\ store_init.file = Some(Saved(1))
    /\ store_log[1].op = "save" /\ store_log[1].tokens = 2 /\ store_log[1].result.ok
    /\ store_log[2].op = "load" /\ store_log[2].result = Ok(2)
    /\ store_log[3].op = "delete" /\ store_log[3].result.ok
    /\ store_log[4].op = "delete" /\ store_log[4].result.ok
    /\ store.file = None

\* ---------------------------------------------------------------------------
\* C32: in every reachable state of the application (any interleaving of
\* key events and loader messages) a selection Some(i) has i below the number
\* of cached events of selected_date, and a view mode Details(i) shows an
\* event that exists for selected_date, so that the details pane never has
\* to render "Event not found".
\* ('t' moves selected_date without resetting the selection, so the
\* statement is violated.)
C32_SelectionWithinCachedEvents ==
    /\ selected_event_index # None =>
          selected_event_index[1] < Len(get_events_for_date(selected_date))
    /\ events_view_mode[1] = "Details" =>
          events_view_mode[2] < Len(get_events_for_date(selected_date))

\* ---------------------------------------------------------------------------
\* C33: in every state reachable by key events and loader messages, a view
\* mode Details(i) comes with selected_event_index = Some(i): the event shown
\* and the list selection never diverge; and Esc pressed in Details leads
\* back to List with the same event still selected.
C33_DetailsShowsTheSelectedEvent ==
    /\ [](events_view_mode[1] = "Details" =>
              selected_event_index = Some(events_view_mode[2]))
    /\ [][(PollKey("Esc") /\ events_view_mode[1] = "Details" /\ view_focus = "Events") =>
              /\ events_view_mode' = ListMode
              /\ selected_event_index' = selected_event_index
              /\ selected_event_index' = Some(events_view_mode[2])
              /\ app_pc' = "running"]_vars

\* the second event of a day was selected and opened, and 't' then moved
\* the selected date: the details view and the selection still agree
C33_Witness ==
    /\ app_pc = "running"
    /\ events_view_mode = Details(1)
    /\ selected_event_index = Some(1)
    /\ selected_date = today
    /\ view_focus = "Events"

\* ---------------------------------------------------------------------------
\* C34: folding a loader message touches only the data fields. Success
\* replaces calendars and the whole event cache by the message's content and
\* sets loading = false, error = None; Error leaves calendars and the cache
\* unchanged and sets loading = false, error = Some(its text); Loading sets
\* loading = true, error = None and leaves calendars and the cache unchanged.
\* None of them changes selected_date, today, the focus, the view mode or
\* selected_event_index, and no key event changes calendars, the event
\* cache, loading or error.
C34_FoldTouchesOnlyDataFields ==
    /\ [][Len(folded') > Len(folded) =>
            LET message == folded'[Len(folded')]
            IN  /\ message = Head(receiver)
                /\ message.type = "Success" =>
                      /\ calendars' = message.calendars
                      /\ events' = message.events
                      /\ loading' = FALSE
                      /\ error' = None
                /\ message.type = "Error" =>
                      /\ UNCHANGED <<calendars, events>>
                      /\ loading' = FALSE
                      /\ error' = Some(message.error)
                /\ message.type = "Loading" =>
                      /\ UNCHANGED <<calendars, events>>
                      /\ loading' = TRUE
                      /\ error' = None
                /\ UNCHANGED <<selected_date, today, view_focus, events_view_mode,
                               selected_event_index>>]_vars
    /\ [][PollInput => UNCHANGED <<calendars, events, loading, error>>]_vars

\* keys had moved the date and the focus and selected nothing yet when the
\* Success message was folded: the cache is the message's, the navigation
\* fields are as the keys left them
C34_Witness ==
    /\ folded # <<>>
    /\ folded[Len(folded)].type = "Success"
    /\ events = folded[Len(folded)].events
    /\ events # <<>>
    /\ calendars = folded[Len(folded)].calendars
    /\ loading = FALSE /\ error = None
    /\ selected_date = today + 1
    /\ view_focus = "Events"
    /\ selected_event_index = None
    /\ last_action = "None"
    /\ fetch_task = "done"

\* ---------------------------------------------------------------------------
\* C35: the focus scopes the non-global keys. A key other than 't' routed
\* while the focus is Events leaves selected_date as it was (the arrows and
\* h/j/k/l never move the date), 't' alone setting it to today; a key routed
\* while the focus is Calendar never changes selected_event_index to Some:
\* the selection afterwards is what it was or None (Up/Down never move the
\* event selection).
C35_FocusScopesTheKeys ==
    Routed(KeyCodes) =>
        /\ (Was.view_focus = "Events" /\ key_in # "t") =>
              selected_date = Was.selected_date
        /\ (Was.view_focus = "Events" /\ key_in = "t") => selected_date = today
        /\ Was.view_focus = "Calendar" =>
              selected_event_index \in {Was.selected_event_index, None}
        /\ (Was.view_focus = "Calendar" /\ key_in \in UpKeys \cup DownKeys) =>
              selected_event_index = None

\* 'l' was pressed with the focus on Events, an event selected, on the day
\* after today: the date did not move
C35_Witness ==
    /\ Routed({"l"})
    /\ Was.view_focus = "Events"
    /\ Was.selected_date = today + 1
    /\ Was.selected_event_index = Some(0)
    /\ selected_date = today + 1
    /\ selected_event_index = Some(0)

----------------------------------------------------------------------------
\* Further claims about the API client (SpecClient)

\* ---------------------------------------------------------------------------
\* C36: a token exchange that succeeds puts the newly issued access token
\* into the in-memory pair, and the newly issued refresh token if the
\* provider returned one, the refresh token being unchanged otherwise; the
\* refresh then succeeds by persisting exactly that pair. When the token
\* exchange itself fails, the in-memory pair and the persisted pair are both
\* unchanged and the call fails.
C36_RefreshUpdatesTheTokenPair ==
    /\ [][cpc = "refresh" =>
            IF w'.new_token = None
            THEN /\ tokens' = tokens
                 /\ disk' = disk
                 /\ cpc' = "returned"
                 /\ ~ret'[1].ok
            ELSE /\ tokens'.access_token = w'.new_token[1]
                 /\ tokens'.access_token # tokens.access_token
                 /\ tokens'.refresh_token =
                        IF w'.new_refresh_token # None
                        THEN w'.new_refresh_token[1]
                        ELSE tokens.refresh_token
                 /\ disk' = disk]_vars
    /\ [][(cpc = "save" /\ cpc' = "retry") => (tokens' = tokens /\ disk' = tokens)]_vars
    /\ [](w.saves >= 1 =>
            /\ tokens.access_token = w.new_token[1]
            /\ w.new_refresh_token # None => tokens.refresh_token = w.new_refresh_token[1])

\* the second refresh succeeded and its provider returned no refresh token:
\* the access token is the second one issued, the refresh token still the one
\* the first refresh brought
C36_Witness ==
    /\ w.saves = 1
    /\ w.new_token = Some(2)
    /\ w.new_refresh_token = None
    /\ tokens = [access_token |-> 2, refresh_token |-> 1]
    /\ disk = tokens

\* the requests of the current list call that came back unauthorized, and
\* the pages it has asked for
UnauthorizedIn(reqs) == {i \in 1..Len(reqs) : reqs[i].response = "unauthorized"}
PagesAskedIn(reqs) == {reqs[i].page_token : i \in 1..Len(reqs)}

\* ---------------------------------------------------------------------------
\* C37: within one client every request (a retry, a following page of the
\* same list call, a later list call) carries the access token of the most
\* recent successful token exchange, which is the in-memory one; once a
\* refresh has succeeded no token older than the refreshed one is sent
\* again. Hence a list call that got exactly one 401 performed exactly one
\* refresh, whatever its number of pages; in general a list call performs one
\* refresh per 401 answered to a first attempt, so at most one per page it
\* asks for.
C37_RefreshedTokenIsReused ==
    /\ [][Len(wire') > Len(wire) =>
            LET req == wire'[Len(wire')]
            IN  /\ req.access_token = tokens.access_token
                /\ req.access_token = issued
                /\ disk.access_token # 0 => req.access_token >= disk.access_token
                /\ \A i \in 1..Len(wire) : wire[i].access_token <= req.access_token]_vars
    /\ [](/\ call_refreshes <= Cardinality(UnauthorizedIn(wire))
          /\ call_refreshes <= Cardinality(PagesAskedIn(wire))
          /\ (cpc = "returned" /\ Cardinality(UnauthorizedIn(wire)) = 1) =>
                call_refreshes = 1
          /\ (cpc = "returned" /\ ret[1].ok) =>
                call_refreshes = Cardinality(UnauthorizedIn(wire)))

\* a list call of two pages whose token expired on each page: two refreshes,
\* each page retried with the token just issued, the second page first asked
\* for with the token of the first refresh
C37_Witness ==
    /\ cpc = "returned"
    /\ ret[1].ok
    /\ Len(pages) = 2
    /\ call_refreshes = 2
    /\ Len(wire) = 4
    /\ [i \in 1..4 |-> wire[i].access_token] = <<0, 1, 1, 2>>

OkResponsesIn(reqs) == {i \in 1..Len(reqs) : reqs[i].response = "ok"}

\* ---------------------------------------------------------------------------
\* C38: list_calendars and list_events are all-or-nothing. If the request
\* for a page fails (after the retry protocol: with_token_refresh returned an
\* error), the list call returns that error and nothing else: the items of the
\* pages accumulated before it are not returned; and no request is sent
\* after it until another list call starts.
C38_ListCallsAreAllOrNothing ==
    /\ []((w.result # None /\ ~w.result[1].ok) =>
             /\ cpc = "returned"
             /\ ret = Some(Err(w.result[1].error))
             /\ all_items = ItemsUpTo(Cardinality(OkResponsesIn(wire)))
             /\ Cardinality(PagesAskedIn(wire)) = Cardinality(OkResponsesIn(wire)) + 1)
    /\ []((cpc = "returned" /\ ret[1].ok) => ret[1].value = ItemsUpTo(Len(pages)))
    /\ [][(cpc = "returned" /\ ~ret[1].ok) =>
             (wire' = wire \/ (ncalls' = ncalls + 1 /\ wire' = <<>>))]_vars

\* the first of three pages was fetched and held an item, the request for
\* the second failed: the call returned the error, the third page was never
\* asked for
C38_Witness ==
    /\ cpc = "returned"
    /\ ~ret[1].ok
    /\ Len(pages) = 3
    /\ all_items # <<>>
    /\ Cardinality(OkResponsesIn(wire)) = 1
    /\ Cardinality(PagesAskedIn(wire)) = 2

\* ---------------------------------------------------------------------------
\* C39: if the first response is 401 and the refresh fails (the token
\* exchange fails, or persisting the new pair fails), the call fails and the
\* original request is not retried; and over the whole life of the client
\* (later pages and later list calls included) no request is sent carrying
\* an access token that differs from the persisted one.
\* (A refresh whose save fails leaves the new pair in memory, and the next
\* list call sends it: the statement is violated.)
FailedRefreshFailsTheCall ==
    (w.refreshes >= 1 /\ w.saves = 0 /\ cpc \notin {"refresh", "save"}) =>
        /\ w.result # None
        /\ ~w.result[1].ok
        /\ Len(w.requests) = 1
        /\ cpc = "returned"
        /\ ~ret[1].ok

C39_SentTokenIsThePersistedOne ==
    /\ []FailedRefreshFailsTheCall
    /\ [][Len(wire') > Len(wire) =>
            wire'[Len(wire')].access_token = disk.access_token]_vars

----------------------------------------------------------------------------
\* A loader discarded while its fetch is in flight (Spec)

\* the handle is gone and the task has not sent its terminal message
DiscardedInFlight == data_loader = None /\ fetch_task = "running"

\* the terminal send of a task whose handle is gone: the message is handed to
\* the sender and delivered nowhere, the task ends, the loop is where it was
SendFailsSilently ==
    /\ Len(sent') = Len(sent) + 1
    /\ IsTerminal(sent'[Len(sent')])
    /\ fetch_task' = "done"
    /\ UNCHANGED <<receiver, folded, app_pc, exit_code>>
    /\ AppStateNow' = AppStateNow

\* C40 as stated: when the loader handle is discarded with the fetch still in
\* flight, the fetch task still runs to completion (nothing stops it short of
\* its terminal send), that send fails silently without panicking or
\* blocking, and the application state is not changed by that loader.
C40_DiscardedLoaderRunsToCompletion ==
    /\ [](DiscardedInFlight => ENABLED FetchTask)
    /\ [][DiscardedInFlight =>
            /\ fetch_task' \in {"running", "done"}
            /\ FetchTask => SendFailsSilently
            /\ UNCHANGED folded
            /\ AppStateNow' = AppStateNow]_vars

\* C40 amended: discarding the handle does not stop the fetch task, which
\* stays able to finish for as long as the process lives; if it finishes, its
\* terminal send fails silently without panicking or blocking; it is stopped
\* short of that only by the process exiting after the loop quit; either way
\* the application state is not changed by that loader.
C40_DiscardedLoaderIsIgnored ==
    /\ [](DiscardedInFlight => ENABLED FetchTask)
    /\ [](fetch_task = "cancelled" => (app_pc = "quit" /\ exit_code # None))
    /\ [][DiscardedInFlight =>
            /\ fetch_task' \in {"running", "done", "cancelled"}
            /\ FetchTask => SendFailsSilently
            /\ fetch_task' = "cancelled" => (exit_code = None /\ exit_code' # None)
            /\ UNCHANGED folded
            /\ AppStateNow' = AppStateNow]_vars
    /\ [][(data_loader = None /\ fetch_task \in {"done", "cancelled"}
           /\ ~TerminalFolded) =>
            (UNCHANGED <<fetch_task, sent, receiver, folded>>
             /\ AppStateNow' = AppStateNow)]_vars

\* the loop quit while the fetch was in flight; the task then finished and
\* sent its terminal message, which reached no receiver and was never folded
C40_Witness ==
    /\ app_pc = "quit"
    /\ data_loader = None
    /\ fetch_task = "done"
    /\ Len(sent) = 2
    /\ IsTerminal(sent[2])
    /\ Len(receiver) + Len(folded) = 1
    /\ ~TerminalFolded
    /\ loading = (folded # <<>>)

====
